---- MODULE Spec2Model ----
(***************************************************************************)
(* A model of the tracking core of turzo891/v_T_m:                         *)
(*   - the polyline6 codec            (tracking/services.py)               *)
(*   - Graph, dijkstra and build_graph_from_routes (tracking/pathfinder.py)*)
(*   - KalmanFilter2D.step, FILTER_STATE, _filter_position and             *)
(*     generate_vehicle_data          (tracking/services.py)               *)
(*                                                                         *)
(* Representation.  A coordinate is a pair <<lat, lng>> of integers in     *)
(* micro-degrees: decode_polyline6 produces lat * 1e-6 from an integer     *)
(* lat, and round(x, 6) of the simulator yields a whole number of          *)
(* micro-degrees again.  A Python string is the sequence of its character  *)
(* codes (ord).  A raised exception is a record field raised = TRUE.       *)
(* Python indices are 0-based; s[i] is written s[i + 1].                   *)
(***************************************************************************)
EXTENDS Integers, Sequences, FiniteSets, TLC

VARIABLES
    polyline,       \* codec: the argument of decode_polyline6
    encoded_from,   \* codec: the points polyline was encoded from (<<>> if none)
    was_encoded,    \* codec: TRUE when polyline is the encoding of encoded_from
    decoded,        \* codec: what decode_polyline6(polyline) returned
    route_definitions, \* pathfinder: the argument of build_graph_from_routes
    graph,          \* pathfinder: a Graph object (fields nodes, edges, distances)
    search,         \* pathfinder: what the last call of dijkstra(graph, initial) returned
    now,            \* simulator: the clock, in seconds
    ROUTES,         \* simulator: the list of routes, built at import
    FILTER_STATE,   \* simulator: the store, vehicle key -> KalmanFilter2D object
    constructed,    \* simulator: the number of KalmanFilter2D objects constructed
    last_call,      \* simulator: the last call made, and whether the store was empty
    filter_calls,   \* simulator: the calls of _filter_position that call made
    vehicles,       \* simulator: the list generate_vehicle_data returned
    heap,           \* threads: the KalmanFilter2D objects, by identity
    threads,        \* threads: each thread's place in _filter_position and its locals
    interpolated,   \* the last call of _interpolate_position: argument and result
    classified      \* the last speed and status computed: arguments and results

codec_vars == <<polyline, encoded_from, was_encoded, decoded>>
graph_vars == <<route_definitions, graph, search>>

sim_vars ==
    <<now, ROUTES, FILTER_STATE, constructed, last_call, filter_calls, vehicles>>

thread_vars == <<heap, threads>>

interp_vars == <<interpolated>>

status_vars == <<classified>>

vars == <<codec_vars, graph_vars, sim_vars, thread_vars, interp_vars, status_vars>>

(***************************************************************************)
(* Bounds of the model.                                                    *)
(***************************************************************************)
MaxLen == 4         \* longest arbitrary input string of decode_polyline6
MaxPts == 2         \* longest point sequence encoded for the round trip
MaxEdges == 4       \* most add_edge calls kept in one graph's adjacency lists
MaxRoutes == 3      \* most route definitions given to build_graph_from_routes
MaxCalls == 2        \* calls made on the simulator in one run
MaxCount == 31       \* largest count passed to generate_vehicle_data

Range(s) == {s[i] : i \in DOMAIN s}

\* Body applied to value, value being computed once
Bind(value, Body(_)) == CHOOSE result \in {Body(v) : v \in {value}} : TRUE

\* the orders in which a walk may meet the elements of a set
RECURSIVE ScanOrders(_)
ScanOrders(S) ==
    IF S = {} THEN {<<>>}
    ELSE UNION {{<<x>> \o rest : rest \in ScanOrders(S \ {x})} : x \in S}

RECURSIVE Pow2(_)
Pow2(n) == IF n = 0 THEN 1 ELSE 2 * Pow2(n - 1)

(***************************************************************************)
(* Bitwise operators on non-negative integers, as Python's | and & act on  *)
(* them.                                                                   *)
(***************************************************************************)
RECURSIVE BitOr(_, _)
BitOr(a, b) ==
    IF a = 0 THEN b
    ELSE IF b = 0 THEN a
    ELSE (IF (a % 2 = 1) \/ (b % 2 = 1) THEN 1 ELSE 0) + 2 * BitOr(a \div 2, b \div 2)

\* b & 0x1F: Python's & on the two's complement of b, also for b < 0
And1F(b) == b % 32

\* x << n  and  x >> 1  on a non-negative x
ShiftLeft(x, n) == x * Pow2(n)
ShiftRight1(x) == x \div 2

\* ~x
BitNot(x) == (-x) - 1

(***************************************************************************)
(* services.py: _decode_value(polyline, index).                            *)
(* The loop state (result, shift) is carried by the recursion.             *)
(***************************************************************************)
Raised == [raised |-> TRUE, delta |-> 0, index |-> 0]

RECURSIVE decode_value_loop(_, _, _, _)
\* the same loop without the exhaustion check: returns what it has
decode_value_loop_unchecked(s, index, result, shift) ==
    IF index >= Len(s)
    THEN [raised |-> FALSE,
          delta |-> IF result % 2 = 1 THEN BitNot(ShiftRight1(result))
                    ELSE ShiftRight1(result),
          index |-> index]
    ELSE LET b == s[index + 1] - 63
             r == BitOr(result, ShiftLeft(And1F(b), shift))
         IN IF b < 32
            THEN [raised |-> FALSE,
                  delta |-> IF r % 2 = 1 THEN BitNot(ShiftRight1(r))
                            ELSE ShiftRight1(r),
                  index |-> index + 1]
            ELSE decode_value_loop(s, index + 1, r, shift + 5)

decode_value_loop(s, index, result, shift) ==
    IF index >= Len(s)
    THEN Raised
    ELSE LET b == s[index + 1] - 63
             r == BitOr(result, ShiftLeft(And1F(b), shift))
         IN IF b < 32
            THEN [raised |-> FALSE,
                  delta |-> IF r % 2 = 1 THEN BitNot(ShiftRight1(r))
                            ELSE ShiftRight1(r),
                  index |-> index + 1]
            ELSE decode_value_loop(s, index + 1, r, shift + 5)

decode_value(s, index) == decode_value_loop(s, index, 0, 0)

(***************************************************************************)
(* services.py: decode_polyline6(polyline).                                *)
(* The loop state (index, lat, lng, coordinates) is carried by the         *)
(* recursion; lat and lng are the running totals.                          *)
(***************************************************************************)
DecodeError == [raised |-> TRUE, coordinates |-> <<>>]

RECURSIVE decode_loop(_, _, _, _, _)
\* the same loop with the totals restarted from the deltas at every point
decode_loop_reset(s, index, lat, lng, coordinates) ==
    IF ~(index < Len(s))
    THEN [raised |-> FALSE, coordinates |-> coordinates]
    ELSE LET a == decode_value(s, index)
         IN IF a.raised THEN DecodeError
            ELSE LET b == decode_value(s, a.index)
                 IN IF b.raised THEN DecodeError
                    ELSE decode_loop(s, b.index, a.delta, b.delta,
                                     Append(coordinates, <<a.delta, b.delta>>))

decode_loop(s, index, lat, lng, coordinates) ==
    IF ~(index < Len(s))
    THEN [raised |-> FALSE, coordinates |-> coordinates]
    ELSE LET a == decode_value(s, index)
         IN IF a.raised THEN DecodeError
            ELSE LET b == decode_value(s, a.index)
                 IN IF b.raised THEN DecodeError
                    ELSE decode_loop(s, b.index, lat + a.delta, lng + b.delta,
                                     Append(coordinates,
                                            <<lat + a.delta, lng + b.delta>>))

decode_polyline6(s) == decode_loop(s, 0, 0, 0, <<>>)

(***************************************************************************)
(* The standard polyline encoding (precision 6), which the repository      *)
(* does not contain: the reference the decoder is checked against.         *)
(* A value is shifted left, inverted when negative, and emitted in 5-bit   *)
(* groups, low group first, each but the last with bit 0x20 set, plus 63.  *)
(***************************************************************************)
ZigZag(d) == IF d < 0 THEN BitNot(2 * d) ELSE 2 * d

RECURSIVE EncodeGroups(_)
EncodeGroups(v) ==
    IF v >= 32 THEN <<(32 + (v % 32)) + 63>> \o EncodeGroups(v \div 32)
    ELSE <<v + 63>>

EncodeValue(d) == EncodeGroups(ZigZag(d))

RECURSIVE EncodeFrom(_, _, _, _)
EncodeFrom(pts, i, lat, lng) ==
    IF i > Len(pts) THEN <<>>
    ELSE EncodeValue(pts[i][1] - lat) \o EncodeValue(pts[i][2] - lng)
         \o EncodeFrom(pts, i + 1, pts[i][1], pts[i][2])

EncodePolyline6(pts) == EncodeFrom(pts, 1, 0, 0)

(***************************************************************************)
(* Inputs of the codec.                                                    *)
(***************************************************************************)
\* '>' (below the alphabet), '?', '@', 'A', '_' and '`' (continuation), '~'
Alphabet == {62, 63, 64, 65, 95, 96, 126}

\* micro-degree values whose deltas take one, two and three characters
CoordValues == {-600, -17, 0, 1, 16}

SeqsUpTo(S, n) == UNION {[1..k -> S] : k \in 0..n}

InputStrings == SeqsUpTo(Alphabet, MaxLen)
InputPoints == SeqsUpTo(CoordValues \X CoordValues, MaxPts)


(***************************************************************************)
(* pathfinder.py: class Graph.                                             *)
(* A dict is a function whose domain is the set of its keys.               *)
(***************************************************************************)
EmptyDict == [k \in {} |-> 0]

\* Graph.__init__
NewGraph == [nodes |-> {}, edges |-> EmptyDict, distances |-> EmptyDict]

\* Graph.add_node: the adjacency list of value is (re)set to the empty list
add_node(g, value) ==
    [nodes |-> g.nodes \cup {value},
     edges |-> (value :> <<>>) @@ g.edges,
     distances |-> g.distances]

\* Graph.add_edge raises KeyError, before it changes anything, when from_node
\* has no adjacency list
add_edge_raises(g, from_node) == from_node \notin DOMAIN g.edges

\* add_edge that forgets the weight
add_edge_no_distance(g, from_node, to_node, distance) ==
    [nodes |-> g.nodes,
     edges |-> [g.edges EXCEPT ![from_node] = Append(@, to_node)],
     distances |-> g.distances]

\* Graph.add_edge, from_node having an adjacency list
add_edge(g, from_node, to_node, distance) ==
    [nodes |-> g.nodes,
     edges |-> [g.edges EXCEPT ![from_node] = Append(@, to_node)],
     distances |-> (<<from_node, to_node>> :> distance) @@ g.distances]

(***************************************************************************)
(* services.py: haversine_km(start, end), on coordinates in micro-degrees  *)
(* next to the origin, where the great circle distance is the radius times *)
(* the Euclidean angle (cos(lat) = 1, sin(x) = x): the result in           *)
(* millimetres, the degree taken as 0.0175 rad.                            *)
(***************************************************************************)
EARTH_RADIUS_KM == 6371

\* abs, max and min of Python
Abs(x) == IF x < 0 THEN 0 - x ELSE x
Max(a, b) == IF a >= b THEN a ELSE b
Min(a, b) == IF a <= b THEN a ELSE b

\* math.sqrt, rounded down to a whole number
ISqrtStep[r \in Nat, n \in Nat] == IF (r + 1) * (r + 1) > n THEN r ELSE r + 1

ISqrt[n \in Nat] == IF n < 2 THEN n ELSE ISqrtStep[2 * ISqrt[n \div 4], n]

\* a * b = q * c + r with 0 <= r < c, as <<q, r>>, no product leaving the
\* machine integers: from the same for b \div 2
MulDivStep[h \in Nat \X Nat, odd \in Nat, a \in Nat, c \in Nat] ==
    <<2 * h[1] + odd * (a \div c) + (2 * h[2] + odd * (a % c)) \div c,
      (2 * h[2] + odd * (a % c)) % c>>

MulDivRem[a \in Nat, b \in Nat, c \in Nat] ==
    IF b = 0 THEN <<0, 0>>
    ELSE IF a <= 46340 /\ b <= 46340 THEN <<(a * b) \div c, (a * b) % c>>
    ELSE IF b > a THEN MulDivRem[b, a, c]
    ELSE MulDivStep[MulDivRem[a, b \div 2, c], b % 2, a, c]

\* (a * b) \div c for b >= 0 and c > 0
MulDivDown[h \in Nat \X Nat] == 0 - h[1] - (IF h[2] > 0 THEN 1 ELSE 0)

MulDiv[a \in Int, b \in Nat, c \in Nat] ==
    IF a >= 0 THEN MulDivRem[a, b, c][1] ELSE MulDivDown[MulDivRem[0 - a, b, c]]

\* the root keeps two decimals below 447 micro-degrees and none above; of
\* differences above 30000 micro-degrees it is taken in units of 16
\* micro-degrees
haversine_km(start, end) ==
    LET d_lat == Abs(end[1] - start[1])
        d_lng == Abs(end[2] - start[2])
        wide == d_lat > 30000 \/ d_lng > 30000
        a == IF wide THEN (d_lat \div 16) * (d_lat \div 16)
                          + (d_lng \div 16) * (d_lng \div 16)
             ELSE d_lat * d_lat + d_lng * d_lng
        c == IF wide THEN 1600 * ISqrt[a]
             ELSE IF a < 200000 THEN ISqrt[10000 * a] ELSE 100 * ISqrt[a]
    IN MulDiv[c, EARTH_RADIUS_KM * 175, 1000000]

(***************************************************************************)
(* shapely, as build_graph_from_routes uses it, on polylines whose         *)
(* vertices are points of the micro-degree lattice and whose consecutive   *)
(* vertices differ in one coordinate only.  Such a polyline is the union   *)
(* of lattice points and of the unit steps between neighbouring lattice    *)
(* points, and so is the intersection of two of them.  A unit step is the  *)
(* set of its two end points.  Coordinates are exact.                      *)
(***************************************************************************)
Lo(a, b) == IF a <= b THEN a ELSE b
Hi(a, b) == IF a <= b THEN b ELSE a

\* the lattice points of the segment from a to b
SegmentPoints(a, b) ==
    {<<x, y>> : x \in Lo(a[1], b[1])..Hi(a[1], b[1]),
                y \in Lo(a[2], b[2])..Hi(a[2], b[2])}

Neighbours(p, q) ==
    \/ p[1] = q[1] /\ (p[2] - q[2] = 1 \/ q[2] - p[2] = 1)
    \/ p[2] = q[2] /\ (p[1] - q[1] = 1 \/ q[1] - p[1] = 1)

SegmentUnits(a, b) ==
    {{pq[1], pq[2]} :
        pq \in {r \in SegmentPoints(a, b) \X SegmentPoints(a, b) :
                  Neighbours(r[1], r[2])}}

\* LineString(coords): the coordinates, and the point set as lattice points
\* and unit steps
LineString(coords) ==
    [coords |-> coords,
     points |-> UNION {SegmentPoints(coords[i], coords[i + 1]) :
                          i \in 1..(Len(coords) - 1)},
     units |-> UNION {SegmentUnits(coords[i], coords[i + 1]) :
                         i \in 1..(Len(coords) - 1)}]

\* a.intersection(b), in three parts: the unit steps the lines share, the
\* isolated points they share, and the coordinates of the shared line work
\* (its vertices: where it ends or branches, and the vertices of a and b on it)
Intersection(a, b) ==
    LET units == a.units \cap b.units
    IN [units |-> units,
        isolated |-> {p \in a.points \cap b.points : \A u \in units : p \notin u},
        line_coords |-> {p \in UNION units :
                            \/ p \in Range(a.coords) \cup Range(b.coords)
                            \/ Cardinality({u \in units : p \in u}) # 2}]

\* intersection.is_empty and intersection.geom_type; "LineString" stands for
\* LineString and MultiLineString, whose branches in build_graph_from_routes
\* add the same coordinates
GeomType(x) ==
    IF x.units = {}
    THEN IF x.isolated = {} THEN "Empty"
         ELSE IF Cardinality(x.isolated) = 1 THEN "Point"
              ELSE "MultiPoint"
    ELSE IF x.isolated = {} THEN "LineString"
         ELSE "GeometryCollection"

\* line.distance(Point(node)) < 1e-8: lattice points are 1e-6 apart
OnLine(line, node) == node \in line.points

\* line.contains(LineString([node, other_node])), node # other_node
ContainsSegment(line, node, other_node) ==
    /\ node[1] = other_node[1] \/ node[2] = other_node[2]
    /\ SegmentUnits(node, other_node) \subseteq line.units

(***************************************************************************)
(* pathfinder.py: build_graph_from_routes(route_definitions).              *)
(***************************************************************************)
\* lines 55-57: the decoded polylines
Polylines(defs) ==
    [i \in DOMAIN defs |->
        LineString(decode_polyline6(defs[i].polyline).coordinates)]

\* lines 64-77: the coordinates added as nodes for an intersection; a
\* GeometryCollection has no branch
IntersectionNodes(x) ==
    CASE GeomType(x) \in {"Point", "MultiPoint"} -> x.isolated
      [] GeomType(x) = "LineString" -> x.line_coords
      [] OTHER -> {}

RECURSIVE add_nodes(_, _)
add_nodes(g, S) ==
    IF S = {} THEN g
    ELSE LET value == CHOOSE value \in S : TRUE
         IN add_nodes(add_node(g, value), S \ {value})

\* lines 61-77: the loops over i < j
RECURSIVE node_loop(_, _, _, _)
node_loop(g, polylines, i, j) ==
    IF i > Len(polylines) THEN g
    ELSE IF j > Len(polylines) THEN node_loop(g, polylines, i + 1, i + 2)
    ELSE node_loop(
             add_nodes(g, IntersectionNodes(Intersection(polylines[i], polylines[j]))),
             polylines, i, j + 1)

\* lines 85-90: the loop over other_node, in the order scan of graph.nodes;
\* node has the adjacency list add_edge appends to, every node of graph.nodes
\* having come from add_node
RECURSIVE other_node_loop(_, _, _, _, _)
\* the loop that adds the edge in one direction only
other_node_loop_one_way(g, line, scan, node, k) ==
    IF k > Len(scan) THEN g
    ELSE LET other_node == scan[k]
         IN IF /\ ~add_edge_raises(g, node)
               /\ OnLine(line, other_node)
               /\ node # other_node
               /\ ContainsSegment(line, node, other_node)
               /\ (node[1] < other_node[1] \/ node[2] < other_node[2])
            THEN other_node_loop(
                     add_edge(g, node, other_node, haversine_km(node, other_node)),
                     line, scan, node, k + 1)
            ELSE other_node_loop(g, line, scan, node, k + 1)

other_node_loop(g, line, scan, node, k) ==
    IF k > Len(scan) THEN g
    ELSE LET other_node == scan[k]
         IN IF /\ ~add_edge_raises(g, node)
               /\ OnLine(line, other_node)
               /\ node # other_node
               /\ ContainsSegment(line, node, other_node)
            THEN other_node_loop(
                     add_edge(g, node, other_node, haversine_km(node, other_node)),
                     line, scan, node, k + 1)
            ELSE other_node_loop(g, line, scan, node, k + 1)

\* lines 83-90: the loop over node
RECURSIVE edge_node_loop(_, _, _, _)
edge_node_loop(g, line, scan, k) ==
    IF k > Len(scan) THEN g
    ELSE IF OnLine(line, scan[k])
         THEN edge_node_loop(other_node_loop(g, line, scan, scan[k], 1),
                             line, scan, k + 1)
         ELSE edge_node_loop(g, line, scan, k + 1)

\* lines 82-90: the loop over the polylines
RECURSIVE edge_loop(_, _, _, _)
edge_loop(g, polylines, scan, i) ==
    IF i > Len(polylines) THEN g
    ELSE edge_loop(edge_node_loop(g, polylines[i], scan, 1), polylines, scan, i + 1)

\* the graphs the call may return: one for every order in which the walks
\* over the set graph.nodes may meet its elements
build_graph_from_routes(defs) ==
    LET polylines == Polylines(defs)
        g == node_loop(NewGraph, polylines, 1, 2)
    IN {edge_loop(g, polylines, scan, 1) : scan \in ScanOrders(g.nodes)}

(***************************************************************************)
(* pathfinder.py: dijkstra(graph, initial).                                *)
(* "for node in nodes" walks a Python set, whose order the language does   *)
(* not fix: scan is the order of that walk, any permutation of the values; *)
(* removing a node does not move the others.                               *)
(***************************************************************************)
\* lines 115-121: min_node is <<>> for None, <<n>> for a node n
RECURSIVE select_min(_, _, _, _, _)
\* the selection whose comparison is not strict: the last seen wins
select_min_last_seen(scan, i, nodes, visited, min_node) ==
    IF i > Len(scan) THEN min_node
    ELSE LET node == scan[i]
         IN IF node \in nodes /\ node \in DOMAIN visited
            THEN IF min_node = <<>>
                 THEN select_min(scan, i + 1, nodes, visited, <<node>>)
                 ELSE IF visited[node] <= visited[min_node[1]]
                      THEN select_min(scan, i + 1, nodes, visited, <<node>>)
                      ELSE select_min(scan, i + 1, nodes, visited, min_node)
            ELSE select_min(scan, i + 1, nodes, visited, min_node)

select_min(scan, i, nodes, visited, min_node) ==
    IF i > Len(scan) THEN min_node
    ELSE LET node == scan[i]
         IN IF node \in nodes /\ node \in DOMAIN visited
            THEN IF min_node = <<>>
                 THEN select_min(scan, i + 1, nodes, visited, <<node>>)
                 ELSE IF visited[node] < visited[min_node[1]]
                      THEN select_min(scan, i + 1, nodes, visited, <<node>>)
                      ELSE select_min(scan, i + 1, nodes, visited, min_node)
            ELSE select_min(scan, i + 1, nodes, visited, min_node)

\* lines 129-133: the loop over graph.edges[min_node]; a missing weight is a
\* KeyError
RECURSIVE relax_edges(_, _, _, _, _, _)
\* the loop that only records nodes it has not seen
relax_edges_first_only(g, min_node, current_weight, i, visited, path) ==
    IF i > Len(g.edges[min_node])
    THEN [raised |-> FALSE, visited |-> visited, path |-> path]
    ELSE LET edge == g.edges[min_node][i]
         IN IF <<min_node, edge>> \notin DOMAIN g.distances
            THEN [raised |-> TRUE, visited |-> visited, path |-> path]
            ELSE LET weight == current_weight + g.distances[<<min_node, edge>>]
                 IN IF edge \notin DOMAIN visited
                    THEN relax_edges(g, min_node, current_weight, i + 1,
                                     (edge :> weight) @@ visited,
                                     (edge :> min_node) @@ path)
                    ELSE relax_edges(g, min_node, current_weight, i + 1,
                                     visited, path)

\* the loop that lowers a distance without recording where it came from
relax_edges_stale_path(g, min_node, current_weight, i, visited, path) ==
    IF i > Len(g.edges[min_node])
    THEN [raised |-> FALSE, visited |-> visited, path |-> path]
    ELSE LET edge == g.edges[min_node][i]
         IN IF <<min_node, edge>> \notin DOMAIN g.distances
            THEN [raised |-> TRUE, visited |-> visited, path |-> path]
            ELSE LET weight == current_weight + g.distances[<<min_node, edge>>]
                 IN IF edge \notin DOMAIN visited
                    THEN relax_edges(g, min_node, current_weight, i + 1,
                                     (edge :> weight) @@ visited,
                                     (edge :> min_node) @@ path)
                    ELSE IF weight < visited[edge]
                         THEN relax_edges(g, min_node, current_weight, i + 1,
                                          (edge :> weight) @@ visited, path)
                         ELSE relax_edges(g, min_node, current_weight, i + 1,
                                          visited, path)

relax_edges(g, min_node, current_weight, i, visited, path) ==
    IF i > Len(g.edges[min_node])
    THEN [raised |-> FALSE, visited |-> visited, path |-> path]
    ELSE LET edge == g.edges[min_node][i]
         IN IF <<min_node, edge>> \notin DOMAIN g.distances
            THEN [raised |-> TRUE, visited |-> visited, path |-> path]
            ELSE LET weight == current_weight + g.distances[<<min_node, edge>>]
                 IN IF edge \notin DOMAIN visited \/ weight < visited[edge]
                    THEN relax_edges(g, min_node, current_weight, i + 1,
                                     (edge :> weight) @@ visited,
                                     (edge :> min_node) @@ path)
                    ELSE relax_edges(g, min_node, current_weight, i + 1,
                                     visited, path)

\* lines 114-135: the while loop; iterations counts the times its body starts
RECURSIVE dijkstra_loop(_, _, _, _, _, _)
\* the loop that reads visited[min_node] before it tests min_node for None
dijkstra_loop_no_break(g, scan, nodes, visited, path, iterations) ==
    IF nodes = {}
    THEN [raised |-> FALSE, visited |-> visited, path |-> path,
          iterations |-> iterations]
    ELSE LET min_node == select_min(scan, 1, nodes, visited, <<>>)
         IN IF min_node = <<>>
            THEN [raised |-> TRUE, visited |-> visited, path |-> path,
                  iterations |-> iterations + 1]
            ELSE IF min_node[1] \notin DOMAIN g.edges
                 THEN [raised |-> TRUE, visited |-> visited, path |-> path,
                       iterations |-> iterations + 1]
                 ELSE LET r == relax_edges(g, min_node[1], visited[min_node[1]],
                                           1, visited, path)
                      IN IF r.raised
                         THEN [raised |-> TRUE, visited |-> r.visited,
                               path |-> r.path, iterations |-> iterations + 1]
                         ELSE dijkstra_loop(g, scan, nodes \ {min_node[1]},
                                            r.visited, r.path, iterations + 1)

dijkstra_loop(g, scan, nodes, visited, path, iterations) ==
    IF nodes = {}
    THEN [raised |-> FALSE, visited |-> visited, path |-> path,
          iterations |-> iterations]
    ELSE LET min_node == select_min(scan, 1, nodes, visited, <<>>)
         IN IF min_node = <<>>
            THEN [raised |-> FALSE, visited |-> visited, path |-> path,
                  iterations |-> iterations + 1]
            ELSE IF min_node[1] \notin DOMAIN g.edges
                 THEN [raised |-> TRUE, visited |-> visited, path |-> path,
                       iterations |-> iterations + 1]
                 ELSE LET r == relax_edges(g, min_node[1], visited[min_node[1]],
                                           1, visited, path)
                      IN IF r.raised
                         THEN [raised |-> TRUE, visited |-> r.visited,
                               path |-> r.path, iterations |-> iterations + 1]
                         ELSE dijkstra_loop(g, scan, nodes \ {min_node[1]},
                                            r.visited, r.path, iterations + 1)

dijkstra(g, initial, scan) ==
    dijkstra_loop(g, scan, g.nodes, (initial :> 0), EmptyDict, 0)

(***************************************************************************)
(* Inputs of the pathfinder.                                               *)
(***************************************************************************)
Values == {"A", "B", "C"}
Weights == {0, 2, 3}

\* add_edge calls are enumerated once per ordered pair, in increasing order of
\* (from_node, to_node): calls with different from_node commute, and a second
\* call for a pair repeats the node in the list and replaces the one weight
\* all its entries share
Rank == [v \in Values |-> CASE v = "A" -> 1 [] v = "B" -> 2 [] OTHER -> 3]
NotBefore(k, from_node, to_node) ==
    \/ Rank[k[1]] < Rank[from_node]
    \/ k[1] = from_node /\ Rank[k[2]] <= Rank[to_node]

RECURSIVE SumOver(_, _)
SumOver(f, S) ==
    IF S = {} THEN 0
    ELSE LET x == CHOOSE x \in S : TRUE IN f[x] + SumOver(f, S \ {x})

\* the number of entries of all adjacency lists
EdgeCount(g) == SumOver([n \in DOMAIN g.edges |-> Len(g.edges[n])], DOMAIN g.edges)



(***************************************************************************)
(* Python floats.  A float that holds a position, a velocity or a time is  *)
(* an integer: positions in 1e-9 degrees, velocities in 1e-9 degrees per   *)
(* second, times in whole seconds; sums of them are exact.  A float that   *)
(* holds a variance, a covariance or a gain is a binary floating point     *)
(* number <<m, e>> of value m * 2^e whose mantissa m has MantBits bits     *)
(* (2^14 <= |m| < 2^15, or <<0, 0>>), where Python keeps 53 bits: every    *)
(* operation rounds its exact result to the nearest such number, as        *)
(* Python's does.  Arguments are evaluated before a function is applied.   *)
(***************************************************************************)
MantBits == 15

\* TwoTo[k] = 2^(k-1) and TenTo[k] = 10^(k-1)
TwoTo ==
    <<1, 2, 4, 8, 16, 32, 64, 128, 256, 512, 1024, 2048, 4096, 8192, 16384,
      32768, 65536, 131072, 262144, 524288, 1048576, 2097152, 4194304,
      8388608, 16777216, 33554432, 67108864, 134217728, 268435456,
      536870912, 1073741824>>
TenTo ==
    <<1, 10, 100, 1000, 10000, 100000, 1000000, 10000000, 100000000,
      1000000000>>

\* the number of binary digits of a > 0
BitLen[a \in Nat] == Cardinality({k \in 1..31 : TwoTo[k] <= a})

\* sign * a * 2^e, a having bits binary digits, rounded to MantBits digits
FRound[sign \in Int, a \in Nat, bits \in Nat, e \in Int] ==
    IF bits <= MantBits
    THEN <<sign * a * TwoTo[MantBits - bits + 1], e - (MantBits - bits)>>
    ELSE LET s == bits - MantBits
             q == (a + TwoTo[s]) \div TwoTo[s + 1]
         IN IF q = TwoTo[MantBits + 1] THEN <<sign * TwoTo[MantBits], e + s + 1>>
            ELSE <<sign * q, e + s>>

\* the float nearest to m * 2^e
FNorm[m \in Int, e \in Int] ==
    IF m = 0 THEN <<0, 0>>
    ELSE IF m < 0 THEN FRound[-1, 0 - m, BitLen[0 - m], e]
         ELSE FRound[1, m, BitLen[m], e]

\* float(i), and the decimal literal i * 10^-p
Float[i \in Int] == FNorm[i, 0]

\* x * y
FMul[x \in Int \X Int, y \in Int \X Int] ==
    IF x[1] = 0 \/ y[1] = 0 THEN <<0, 0>>
    ELSE FNorm[x[1] * y[1], x[2] + y[2]]

\* big + small, the exponent of big being the larger
FAlign[big \in Int \X Int, small \in Int \X Int] ==
    LET d == big[2] - small[2]
    IN FNorm[big[1] * TwoTo[MantBits + 1]
             + (IF d <= MantBits THEN small[1] * TwoTo[MantBits - d + 1]
                ELSE IF d <= 2 * MantBits
                     THEN (IF small[1] < 0
                           THEN 0 - ((0 - small[1]) \div TwoTo[d - MantBits + 1])
                           ELSE small[1] \div TwoTo[d - MantBits + 1])
                     ELSE 0),
             big[2] - MantBits]

\* x + y, -x, x - y
FAdd[x \in Int \X Int, y \in Int \X Int] ==
    IF x[1] = 0 THEN y
    ELSE IF y[1] = 0 THEN x
    ELSE IF x[2] >= y[2] THEN FAlign[x, y] ELSE FAlign[y, x]

FNeg[x \in Int \X Int] == <<0 - x[1], x[2]>>

FSub[x \in Int \X Int, y \in Int \X Int] == FAdd[x, FNeg[y]]

\* x / y, y not zero
FDiv[x \in Int \X Int, y \in Int \X Int] ==
    IF x[1] = 0 THEN <<0, 0>>
    ELSE LET num == (IF x[1] < 0 THEN 0 - x[1] ELSE x[1]) * TwoTo[MantBits + 1]
             den == IF y[1] < 0 THEN 0 - y[1] ELSE y[1]
             sign == IF (x[1] < 0) = (y[1] < 0) THEN 1 ELSE -1
         IN FNorm[sign * ((num + den \div 2) \div den), x[2] - y[2] - MantBits]

Dec[i \in Int, p \in Nat] == FDiv[Float[i], Float[TenTo[p + 1]]]

\* abs(x), and x < y
FAbs[x \in Int \X Int] == IF x[1] < 0 THEN <<0 - x[1], x[2]>> ELSE x

FLess[x \in Int \X Int, y \in Int \X Int] == FSub[x, y][1] < 0

\* the whole part of x, as an integer
FInt[x \in Int \X Int] ==
    IF x[2] >= 0 THEN x[1] * TwoTo[x[2] + 1]
    ELSE IF 0 - x[2] > 30 THEN 0
    ELSE IF x[1] < 0 THEN 0 - ((0 - x[1]) \div TwoTo[1 - x[2]])
         ELSE x[1] \div TwoTo[1 - x[2]]

(***************************************************************************)
(* services.py: the matrix helpers and KalmanFilter2D.  A matrix is a      *)
(* tuple of rows of floats.  None is the empty tuple, and a timestamp that *)
(* is set is a tuple of one element.                                       *)
(***************************************************************************)
PosScale == 1000        \* 1e-9 degrees in 1e-6 degrees

\* KalmanFilter2D.__init__ defaults: 5e-7 and 2e-6
process_variance == Dec[5, 7]
measurement_variance == Dec[2, 6]

\* sum(a[i][k] * b[k][j] for k in range(len(b))), over the first k terms
RECURSIVE SumProducts(_, _, _, _, _)
SumProducts(a, b, i, j, k) ==
    IF k = 0 THEN Float[0]
    ELSE FAdd[SumProducts(a, b, i, j, k - 1), FMul[a[i][k], b[k][j]]]

_matmul(a, b) ==
    [i \in 1..Len(a) |-> [j \in 1..Len(b[1]) |-> SumProducts(a, b, i, j, Len(b))]]

_transpose(matrix) ==
    [j \in 1..Len(matrix[1]) |-> [i \in 1..Len(matrix) |-> matrix[i][j]]]

_identity(size) ==
    [i \in 1..size |-> [j \in 1..size |-> IF i = j THEN Float[1] ELSE Float[0]]]

_invert_2x2(matrix) ==
    LET a == matrix[1][1]
        b == matrix[1][2]
        c == matrix[2][1]
        d == matrix[2][2]
        tiny == FMul[Dec[1, 6], Dec[1, 6]]
    IN Bind(FSub[FMul[a, d], FMul[b, c]], LAMBDA det :
       Bind(FDiv[Float[1], IF FLess[FAbs[det], tiny] THEN tiny ELSE det],
            LAMBDA inv_det :
           << <<FMul[d, inv_det], FMul[FNeg[b], inv_det]>>,
              <<FMul[FNeg[c], inv_det], FMul[a, inv_det]>> >>))

\* KalmanFilter2D(): instance is the identity of the new object
KalmanFilter2D(instance) ==
    [instance |-> instance, state |-> <<>>, covariance |-> <<>>,
     last_timestamp |-> <<>>]

\* KalmanFilter2D._predict
_predict(self, dt) ==
    IF self.state = <<>> \/ self.covariance = <<>> THEN self
    ELSE LET lat == self.state[1] + dt * self.state[3]
             lng == self.state[2] + dt * self.state[4]
             O == Float[0]
             I == Float[1]
             q == process_variance
         IN Bind(Float[dt], LAMBDA fdt :
            Bind(<< <<I, O, fdt, O>>, <<O, I, O, fdt>>,
                    <<O, O, I, O>>, <<O, O, O, I>> >>, LAMBDA A :
            Bind(_matmul(A, self.covariance), LAMBDA AP :
            Bind(_matmul(AP, _transpose(A)), LAMBDA APA_T :
            Bind(FMul[fdt, fdt], LAMBDA dt2 :
            Bind(FMul[dt2, fdt], LAMBDA dt3 :
            Bind(FMul[dt3, fdt], LAMBDA dt4 :
            Bind(<<FMul[FMul[Dec[25, 2], dt4], q], FMul[FMul[Dec[5, 1], dt3], q],
                   FMul[dt2, q]>>, LAMBDA qs :
            Bind(<< <<qs[1], O, qs[2], O>>, <<O, qs[1], O, qs[2]>>,
                    <<qs[2], O, qs[3], O>>, <<O, qs[2], O, qs[3]>> >>, LAMBDA Q :
                [self EXCEPT
                    !.state = <<lat, lng, self.state[3], self.state[4]>>,
                    !.covariance = [row \in 1..4 |-> [col \in 1..4 |->
                                       FAdd[APA_T[row][col], Q[row][col]]]]])))))))))

\* KalmanFilter2D._update: the filter after the update and the pair returned
_update(self, lat, lng) ==
    IF self.state = <<>> \/ self.covariance = <<>>
    THEN [self |-> self, result |-> <<lat, lng>>]
    ELSE LET O == Float[0]
             I == Float[1]
             H == << <<I, O, O, O>>, <<O, I, O, O>> >>
             HT == _transpose(H)
             R == << <<measurement_variance, O>>, <<O, measurement_variance>> >>
             residual == <<lat - self.state[1], lng - self.state[2]>>
         IN Bind(_matmul(_matmul(H, self.covariance), HT), LAMBDA HPHT :
            Bind([row \in 1..2 |-> [col \in 1..2 |->
                     FAdd[HPHT[row][col], R[row][col]]]], LAMBDA S :
            Bind(_invert_2x2(S), LAMBDA S_inv :
            Bind(_matmul(self.covariance, HT), LAMBDA PHt :
            Bind(_matmul(PHt, S_inv), LAMBDA K :
            Bind([i \in 1..4 |->
                     self.state[i]
                     + FInt[FMul[K[i][1], Float[residual[1]]]]
                     + FInt[FMul[K[i][2], Float[residual[2]]]]], LAMBDA state :
            Bind(_matmul(K, H), LAMBDA KH :
            Bind([row \in 1..4 |-> [col \in 1..4 |->
                     FSub[_identity(4)[row][col], KH[row][col]]]],
                 LAMBDA I_minus_KH :
                [self |-> [self EXCEPT
                              !.state = <<state[1], state[2], state[3], state[4]>>,
                              !.covariance = _matmul(I_minus_KH, self.covariance)],
                 result |-> <<state[1], state[2]>>]))))))))

\* self.last_timestamp or timestamp: None and 0 are falsy
LastOr(last_timestamp, timestamp) ==
    IF last_timestamp = <<>> THEN timestamp
    ELSE IF last_timestamp[1] = 0 THEN timestamp
         ELSE last_timestamp[1]

\* lines 64-69: diag(1e-3, 1e-3, 1e-2, 1e-2)
initial_covariance ==
    << <<Dec[1, 3], Float[0], Float[0], Float[0]>>,
       <<Float[0], Dec[1, 3], Float[0], Float[0]>>,
       <<Float[0], Float[0], Dec[1, 2], Float[0]>>,
       <<Float[0], Float[0], Float[0], Dec[1, 2]>> >>

\* the step that smooths the first observation toward the origin
step_smooth_first(self, timestamp, lat, lng) ==
    IF self.state = <<>> \/ self.covariance = <<>>
    THEN [self |-> [self EXCEPT
                       !.state = <<lat \div 2, lng \div 2, 0, 0>>,
                       !.covariance = initial_covariance,
                       !.last_timestamp = <<timestamp>>],
          result |-> <<lat \div 2, lng \div 2>>,
          dt |-> 0]
    ELSE LET dt == Max(timestamp - LastOr(self.last_timestamp, timestamp), 1)
         IN Bind(_predict([self EXCEPT !.last_timestamp = <<timestamp>>], dt),
                 LAMBDA predicted :
                     Bind(_update(predicted, lat, lng), LAMBDA updated :
                         [self |-> updated.self, result |-> updated.result,
                          dt |-> dt]))

\* KalmanFilter2D.step: the filter after the step, the pair returned and the
\* dt the step predicted with (0 when it did not predict)
step(self, timestamp, lat, lng) ==
    IF self.state = <<>> \/ self.covariance = <<>>
    THEN [self |-> [self EXCEPT
                       !.state = <<lat, lng, 0, 0>>,
                       !.covariance = initial_covariance,
                       !.last_timestamp = <<timestamp>>],
          result |-> <<lat, lng>>,
          dt |-> 0]
    ELSE LET dt == Max(timestamp - LastOr(self.last_timestamp, timestamp), 1)
         IN Bind(_predict([self EXCEPT !.last_timestamp = <<timestamp>>], dt),
                 LAMBDA predicted :
                     Bind(_update(predicted, lat, lng), LAMBDA updated :
                         [self |-> updated.self, result |-> updated.result,
                          dt |-> dt]))

(***************************************************************************)
(* services.py: the routes and the position simulator.  Distances are in   *)
(* millimetres, route points in 1e-6 degrees as decode_polyline6 returns   *)
(* them, interpolated positions in 1e-9 degrees.  A dict {"lat", "lng"} of *)
(* rounded coordinates is the pair of them in 1e-6 degrees.                *)
(***************************************************************************)
\* ROUTE_DEFINITIONS: the three shipped routes, each polyline replaced by a
\* short one (the shipped ones have 299 to 878 points and span 0.09 to 0.17
\* degrees)
ROUTE_DEFINITIONS ==
    << [id |-> "airport-motijheel", average_speed_kmh |-> 42,
        polyline |-> EncodePolyline6(<< <<40000, 3000>>, <<24000, 3000>>,
                                        <<24000, 6000>>, <<0, 6000>> >>)],
       [id |-> "mirpur-secretariat", average_speed_kmh |-> 35,
        polyline |-> EncodePolyline6(<< <<0, 1000>>, <<0, 9000>>,
                                        <<10000, 9000>> >>)],
       [id |-> "narayanganj-gulshan", average_speed_kmh |-> 48,
        polyline |-> EncodePolyline6(<< <<2000, 0>>, <<2000, 2000>>,
                                        <<0, 2000>>, <<0, 0>> >>)] >>

\* VEHICLE_PROFILES: the ten devices VTMS-DHK-201 .. VTMS-DHK-210
VEHICLE_PROFILES == [i \in 1..10 |-> [device_id |-> 200 + i]]

\* the distances of the first n of coords from the first one, as the crow
\* flies
cumulative_from_origin(coords, n) ==
    [i \in 1..n |-> haversine_km(coords[1], coords[i])]

\* lines 392-394: cumulative distances along the first n of coords
RECURSIVE cumulative_loop(_, _, _, _)
\* the loop of lines 393-394 over the points lo + 1 .. hi of coords, the
\* last distance appended so far being last: the distances it appends, the
\* first half of the points before the second
cumulative_loop(coords, lo, hi, last) ==
    IF hi <= lo THEN <<>>
    ELSE IF hi = lo + 1 THEN <<last + haversine_km(coords[lo], coords[hi])>>
    ELSE Bind(cumulative_loop(coords, lo, (lo + hi) \div 2, last), LAMBDA first :
             first \o cumulative_loop(coords, (lo + hi) \div 2, hi, first[Len(first)]))

Cumulative(coords, n) == <<0>> \o cumulative_loop(coords, 1, n, 0)

\* the route whose loop_seconds has no floor of 900
build_route_no_floor(definition, coords) ==
    Bind(Cumulative(coords, Len(coords)), LAMBDA cumulative :
        LET length_km == cumulative[Len(cumulative)]
            avg_speed == Max(IF "average_speed_kmh" \in DOMAIN definition
                             THEN definition.average_speed_kmh ELSE 35, 5)
            loop_seconds == (length_km * 36) \div (avg_speed * 10000)
        IN [id |-> definition.id,
            points |-> coords,
            point_dicts |-> coords,
            cumulative_km |-> cumulative,
            length_km |-> length_km,
            average_speed_kmh |-> avg_speed,
            loop_seconds |-> loop_seconds,
            origin |-> coords[1],
            destination |-> coords[Len(coords)]])

\* lines 391-425: the route of a definition whose polyline decodes to coords
build_route(definition, coords) ==
    Bind(Cumulative(coords, Len(coords)), LAMBDA cumulative :
        LET length_km == cumulative[Len(cumulative)]
            avg_speed == Max(IF "average_speed_kmh" \in DOMAIN definition
                             THEN definition.average_speed_kmh ELSE 35, 5)
            \* int(max(length_km / avg_speed * 3600, 900)), length_km in mm
            loop_seconds == Max((length_km * 36) \div (avg_speed * 10000), 900)
        IN [id |-> definition.id,
            points |-> coords,
            point_dicts |-> coords,
            cumulative_km |-> cumulative,
            length_km |-> length_km,
            average_speed_kmh |-> avg_speed,
            loop_seconds |-> loop_seconds,
            origin |-> coords[1],
            destination |-> coords[Len(coords)]])

RECURSIVE build_routes_until_empty(_, _)
\* _build_routes that stops at the first definition without points
build_routes_until_empty(defs, k) ==
    IF k > Len(defs) THEN <<>>
    ELSE Bind(decode_polyline6(defs[k].polyline).coordinates, LAMBDA coords :
             IF coords = <<>> THEN <<>>
             ELSE <<build_route(defs[k], coords)>>
                      \o build_routes_until_empty(defs, k + 1))

\* _build_routes, over the definitions from the k-th on
RECURSIVE build_routes_from(_, _)
build_routes_from(defs, k) ==
    IF k > Len(defs) THEN <<>>
    ELSE Bind(decode_polyline6(defs[k].polyline).coordinates, LAMBDA coords :
             IF coords = <<>> THEN build_routes_from(defs, k + 1)
             ELSE <<build_route(defs[k], coords)>> \o build_routes_from(defs, k + 1))

_build_routes == build_routes_from(ROUTE_DEFINITIONS, 1)

\* bisect.bisect_left(cumulative, x) as a 0-based index, from index lo
RECURSIVE bisect_left(_, _, _)
bisect_left(cumulative, x, lo) ==
    IF lo >= Len(cumulative) THEN lo
    ELSE IF cumulative[lo + 1] >= x THEN lo
         ELSE bisect_left(cumulative, x, lo + 1)

\* the interpolation whose ratio is measured from the end of the segment
interpolate_from_end(route, distance_km, idx) ==
    LET cumulative == route.cumulative_km
        points == route.points
        prev_idx == Max(idx - 1, 0)
        start == points[prev_idx + 1]
        end == points[idx + 1]
        segment_distance == cumulative[idx + 1] - cumulative[prev_idx + 1]
        travelled == cumulative[idx + 1] - distance_km
    IN IF segment_distance <= 0
       THEN <<start[1] * PosScale, start[2] * PosScale, prev_idx>>
       ELSE <<start[1] * PosScale
                  + MulDiv[(end[1] - start[1]) * PosScale, travelled, segment_distance],
              start[2] * PosScale
                  + MulDiv[(end[2] - start[2]) * PosScale, travelled, segment_distance],
              prev_idx>>

\* lines 543-553: the point at distance_km between points prev_idx and idx
interpolate(route, distance_km, idx) ==
    LET cumulative == route.cumulative_km
        points == route.points
        prev_idx == Max(idx - 1, 0)
        start == points[prev_idx + 1]
        end == points[idx + 1]
        segment_distance == cumulative[idx + 1] - cumulative[prev_idx + 1]
        travelled == distance_km - cumulative[prev_idx + 1]
    IN IF segment_distance <= 0
       THEN <<start[1] * PosScale, start[2] * PosScale, prev_idx>>
       ELSE <<start[1] * PosScale
                  + MulDiv[(end[1] - start[1]) * PosScale, travelled, segment_distance],
              start[2] * PosScale
                  + MulDiv[(end[2] - start[2]) * PosScale, travelled, segment_distance],
              prev_idx>>

\* _interpolate_position: <<lat, lng, segment index>>
_interpolate_position(route, distance_km) ==
    LET cumulative == route.cumulative_km
        points == route.points
    IN IF distance_km <= 0 \/ Len(points) = 1
       THEN <<points[1][1] * PosScale, points[1][2] * PosScale, 0>>
       ELSE IF distance_km >= cumulative[Len(cumulative)]
       THEN <<points[Len(points)][1] * PosScale, points[Len(points)][2] * PosScale,
              Len(points) - 1>>
       ELSE Bind(bisect_left(cumulative, distance_km, 0), LAMBDA idx :
                IF cumulative[idx + 1] = distance_km
                THEN <<points[idx + 1][1] * PosScale, points[idx + 1][2] * PosScale,
                       Max(idx - 1, 0)>>
                ELSE interpolate(route, distance_km, idx))

\* _bearing_deg(lat1, lng1, lat2, lng2) next to the origin, where x is the
\* difference of the longitudes and y that of the latitudes: the bearing
\* math.atan2(x, y) in degrees within 0..359, to the nearest of the eight
\* compass directions (tan 22.5 degrees = 0.414); atan2(0, 0) is 0
_bearing_deg(lat1, lng1, lat2, lng2) ==
    LET x == lng2 - lng1
        y == lat2 - lat1
        along_y == Abs(x) <= MulDiv[Abs(y), 414, 1000]
        along_x == Abs(y) <= MulDiv[Abs(x), 414, 1000]
    IN IF x = 0 /\ y = 0 THEN 0
       ELSE IF along_y THEN (IF y > 0 THEN 0 ELSE 180)
       ELSE IF along_x THEN (IF x > 0 THEN 90 ELSE 270)
       ELSE IF x > 0 THEN (IF y > 0 THEN 45 ELSE 135)
            ELSE (IF y > 0 THEN 315 ELSE 225)

\* _route_heading: the bearing returned, with the two points handed to
\* _bearing_deg (origin and target, in 1e-9 degrees)
_route_heading(route, segment_index, lat, lng) ==
    LET points == route.points
        next_index == Min(segment_index + 1, Len(points) - 1)
        next == <<points[next_index + 1][1] * PosScale,
                  points[next_index + 1][2] * PosScale>>
        prev_index == Max(segment_index - 1, 0)
        prev == <<points[prev_index + 1][1] * PosScale,
                  points[prev_index + 1][2] * PosScale>>
    IN IF next_index = segment_index
       THEN [origin |-> prev, target |-> <<lat, lng>>,
             bearing |-> _bearing_deg(prev[1], prev[2], lat, lng)]
       ELSE [origin |-> <<lat, lng>>, target |-> next,
             bearing |-> _bearing_deg(lat, lng, next[1], next[2])]

\* math.sin of an angle in 1/1000 radians, in thousandths: pi is SinPi, and
\* the sine of x within 0..pi is 16 x (pi - x) / (5 pi^2 - 4 x (pi - x)),
\* which is 0 at 0 and at pi, 1 at pi / 2 and within 0.002 of the sine
SinPi == 3142
half_wave(x) ==
    MulDiv[16 * x * (SinPi - x), 1000, 5 * SinPi * SinPi - 4 * x * (SinPi - x)]
math_sin(theta) ==
    LET x == theta % (2 * SinPi)
    IN IF x <= SinPi THEN half_wave(x) ELSE 0 - half_wave(x - SinPi)

\* the speed whose variation is 8 km/h wide
speed_kmh_wider(base_speed, timestamp, index) ==
    Max(base_speed + 8 * math_sin(timestamp \div 90 + 700 * index), 8000)

\* lines 462-463: speed_kmh in 1/1000 km/h, of base_speed in 1/1000 km/h,
\* now.timestamp() in 1/1000 seconds and the index of the vehicle
speed_kmh(base_speed, timestamp, index) ==
    Max(base_speed + 6 * math_sin(timestamp \div 90 + 700 * index), 8000)

\* lines 455-457: progress_fraction in millionths, timestamp in 1/1000
\* seconds
progress_fraction(loop_seconds, timestamp, index) ==
    MulDiv[(timestamp + index * 180000) % (loop_seconds * 1000), 1000, loop_seconds]

\* the status that looks at the speed before the progress
determine_status_speed_first(progress, speed, base_speed) ==
    IF 10 * speed < 6 * base_speed THEN "Congested"
    ELSE IF progress < 50000 THEN "Departing Terminal"
    ELSE IF progress > 950000 THEN "Approaching Destination"
    ELSE "En Route"

\* _determine_status(progress, speed, base_speed): progress in millionths,
\* the speeds in 1/1000 km/h
_determine_status(progress, speed, base_speed) ==
    IF progress < 50000 THEN "Departing Terminal"
    ELSE IF progress > 950000 THEN "Approaching Destination"
    ELSE IF 10 * speed < 6 * base_speed THEN "Congested"
    ELSE "En Route"

\* round(x, 6) of a position in 1e-9 degrees: the result in 1e-6 degrees,
\* a tie going to the even neighbour
Round6(x) ==
    LET q == x \div PosScale
        r == x % PosScale
    IN IF 2 * r < PosScale THEN q
       ELSE IF 2 * r > PosScale THEN q + 1
       ELSE IF q % 2 = 0 THEN q ELSE q + 1

\* the lists of _route_segments with a trail that starts at the first
\* vertex and an upcoming list that keeps a lone current point
route_segments_unbounded(route, segment_index, lat, lng) ==
    LET point_dicts == route.point_dicts
        current_point == [shared |-> 0, value |-> <<Round6(lat), Round6(lng)>>]
        tail_end == Min(segment_index + 1, Len(point_dicts))
        trail == [k \in 1..tail_end |-> [shared |-> k, value |-> point_dicts[k]]]
        rest == [k \in 1..Max(Len(point_dicts) - (segment_index + 1), 0) |->
                    [shared |-> segment_index + 1 + k,
                     value |-> point_dicts[segment_index + 1 + k]]]
    IN [trail |-> IF trail = <<>> \/ trail[Len(trail)].value # current_point.value
                  THEN Append(trail, current_point) ELSE trail,
        upcoming |-> <<current_point>> \o rest]

\* An element of a list of point dicts: the dict (value) and the index in
\* route["point_dicts"] of the dict object it is (0: an object of its own).
\* _route_segments: the lists trail and upcoming
_route_segments(route, segment_index, lat, lng) ==
    LET point_dicts == route.point_dicts
        current_point == [shared |-> 0, value |-> <<Round6(lat), Round6(lng)>>]
        tail_start == Max(segment_index - 60, 0)
        tail_end == Min(segment_index + 1, Len(point_dicts))
        trail == [k \in 1..(tail_end - tail_start) |->
                     [shared |-> tail_start + k, value |-> point_dicts[tail_start + k]]]
        rest == [k \in 1..Max(Len(point_dicts) - (segment_index + 1), 0) |->
                    [shared |-> segment_index + 1 + k,
                     value |-> point_dicts[segment_index + 1 + k]]]
        upcoming == <<current_point>> \o rest
    IN [trail |-> IF trail = <<>> \/ trail[Len(trail)].value # current_point.value
                  THEN Append(trail, current_point) ELSE trail,
        upcoming |-> IF Len(upcoming) <= 1 THEN <<>> ELSE upcoming]

\* the filtered point written into the dict objects that end trail and begin
\* upcoming, instead of into the two lists
write_filtered_point_in_place(routes, route_index, trail, upcoming, filtered_point) ==
    LET last == IF trail = <<>> THEN 0 ELSE trail[Len(trail)].shared
        first == IF upcoming = <<>> THEN 0 ELSE upcoming[1].shared
        written == {last, first} \ {0}
    IN [routes |-> [routes EXCEPT ![route_index].point_dicts =
                        [k \in DOMAIN @ |-> IF k \in written THEN filtered_point
                                            ELSE @[k]]],
        trail |-> IF trail = <<>> THEN trail
                  ELSE [trail EXCEPT ![Len(trail)].value = filtered_point],
        upcoming |-> IF upcoming = <<>> THEN upcoming
                     ELSE [upcoming EXCEPT ![1].value = filtered_point]]

\* lines 483-486: trail_points[-1] = filtered_point and upcoming_points[0] =
\* filtered_point; the lists are the call's own, routes is left as it is
write_filtered_point(routes, route_index, trail, upcoming, filtered_point) ==
    [routes |-> routes,
     trail |-> IF trail = <<>> THEN trail
               ELSE [trail EXCEPT ![Len(trail)] =
                        [shared |-> 0, value |-> filtered_point]],
     upcoming |-> IF upcoming = <<>> THEN upcoming
                  ELSE [upcoming EXCEPT ![1] =
                           [shared |-> 0, value |-> filtered_point]]]

\* _filter_position that makes a new filter at every call
filter_position_always_new(store, allocated, vehicle_key, timestamp, lat, lng) ==
    LET kalman == KalmanFilter2D(allocated + 1)
    IN Bind(step(kalman, timestamp, lat, lng), LAMBDA stepped :
           [store |-> (vehicle_key :> stepped.self) @@ store,
            allocated |-> allocated + 1,
            created |-> TRUE,
            result |-> stepped.result,
            dt |-> stepped.dt])

\* _filter_position on the store FILTER_STATE, allocated filters having been
\* constructed so far: the store and the count afterwards, whether a filter
\* was constructed, the pair returned and the dt of the step
_filter_position(store, allocated, vehicle_key, timestamp, lat, lng) ==
    LET missing == vehicle_key \notin DOMAIN store
        kalman == IF missing THEN KalmanFilter2D(allocated + 1)
                  ELSE store[vehicle_key]
    IN Bind(step(kalman, timestamp, lat, lng), LAMBDA stepped :
           [store |-> (vehicle_key :> stepped.self) @@ store,
            allocated |-> IF missing THEN allocated + 1 ELSE allocated,
            created |-> missing,
            result |-> stepped.result,
            dt |-> stepped.dt])

\* lines 452-458: the distance along route of the vehicle index
target_distance(route, index, timestamp) ==
    LET loop_seconds == IF route.loop_seconds = 0 THEN 900 ELSE route.loop_seconds
        phase_offset == index * 180
        progress_seconds == (timestamp + phase_offset) % loop_seconds
    IN MulDiv[progress_seconds, route.length_km, loop_seconds]

\* lines 472-473: the key of the vehicle index on route
vehicle_key_of(route, index) ==
    LET profile == VEHICLE_PROFILES[(index % Len(VEHICLE_PROFILES)) + 1]
    IN <<route.id, profile.device_id>>

\* the dict of a vehicle whose raw point is built from the filtered pair
vehicle_dict_raw_from_filtered(index, route, raw, filtered, written) ==
    [id |-> index + 1,
     uid |-> vehicle_key_of(route, index),
     location |-> <<Round6(filtered[1]), Round6(filtered[2])>>,
     raw_location |-> <<Round6(filtered[1]), Round6(filtered[2])>>,
     segment_index |-> raw[3],
     trail |-> [k \in DOMAIN written.trail |-> written.trail[k].value],
     upcoming |-> [k \in DOMAIN written.upcoming |-> written.upcoming[k].value],
     path |-> route.point_dicts]

\* lines 481-482 and 488-521: the dict appended to vehicles; raw is what
\* _interpolate_position returned, filtered what _filter_position returned
\* and written the lists trail and upcoming
vehicle_dict(index, route, raw, filtered, written) ==
    [id |-> index + 1,
     uid |-> vehicle_key_of(route, index),
     location |-> <<Round6(filtered[1]), Round6(filtered[2])>>,
     raw_location |-> <<Round6(raw[1]), Round6(raw[2])>>,
     segment_index |-> raw[3],
     trail |-> [k \in DOMAIN written.trail |-> written.trail[k].value],
     upcoming |-> [k \in DOMAIN written.upcoming |-> written.upcoming[k].value],
     path |-> route.point_dicts]

\* lines 451-521: the body of the loop of generate_vehicle_data for one
\* index; run is the routes, the store, the filters constructed, the calls
\* of _filter_position made and the vehicles appended so far
vehicle_loop_body(run, timestamp) ==
    Bind((run.index % Len(run.routes)) + 1, LAMBDA route_index :
    Bind(run.routes[route_index], LAMBDA route :
    Bind(_interpolate_position(route, target_distance(route, run.index, timestamp)),
         LAMBDA raw :
    Bind(_route_segments(route, raw[3], raw[1], raw[2]), LAMBDA segments :
    Bind(_filter_position(run.store, run.allocated, vehicle_key_of(route, run.index),
                          timestamp, raw[1], raw[2]),
         LAMBDA filtered :
    Bind(write_filtered_point(run.routes, route_index, segments.trail,
                              segments.upcoming,
                              <<Round6(filtered.result[1]), Round6(filtered.result[2])>>),
         LAMBDA written :
        [index |-> run.index + 1,
         routes |-> written.routes,
         store |-> filtered.store,
         allocated |-> filtered.allocated,
         calls |-> Append(run.calls,
                          [vehicle_key |-> vehicle_key_of(route, run.index),
                           timestamp |-> timestamp,
                           lat |-> raw[1], lng |-> raw[2],
                           created |-> filtered.created,
                           result |-> filtered.result,
                           dt |-> filtered.dt]),
         vehicles |-> Append(run.vehicles,
                             vehicle_dict(run.index, route, raw, filtered.result,
                                          written))]))))))

\* lines 450-521: the loop over range(count), from run.index on: the
\* indices below the middle one, then the others
RECURSIVE vehicle_loop(_, _, _)
vehicle_loop(run, count, timestamp) ==
    IF run.index >= count THEN run
    ELSE IF count - run.index = 1 THEN vehicle_loop_body(run, timestamp)
    ELSE Bind(vehicle_loop(run, run.index + (count - run.index) \div 2, timestamp),
              LAMBDA half : vehicle_loop(half, count, timestamp))

\* generate_vehicle_data(count) at the time timestamp, ROUTES being routes
generate_vehicle_data(routes, store, allocated, count, timestamp) ==
    LET run == [index |-> 0, routes |-> routes, store |-> store,
                allocated |-> allocated, calls |-> <<>>, vehicles |-> <<>>]
    IN IF routes = <<>> THEN run
       ELSE vehicle_loop(run, count, timestamp)

(***************************************************************************)
(* The state of a component no call has touched.  Each specification below *)
(* drives one component and leaves the others in this state.               *)
(***************************************************************************)
NotRun == [raised |-> FALSE, coordinates |-> <<>>, ran |-> FALSE]

NoSearch ==
    [ran |-> FALSE, raised |-> FALSE, initial |-> "A", visited |-> EmptyDict,
     path |-> EmptyDict, iterations |-> 0]

CodecIdle ==
    /\ polyline = <<>>
    /\ encoded_from = <<>>
    /\ was_encoded = FALSE
    /\ decoded = NotRun

GraphIdle ==
    /\ route_definitions = <<>>
    /\ graph = NewGraph
    /\ search = NoSearch

NoCall == [op |-> "none", number |-> 0, count |-> 0, store_was_empty |-> TRUE]

\* the module just imported: FILTER_STATE = {}
SimIdle ==
    /\ now = 0
    /\ ROUTES = _build_routes
    /\ FILTER_STATE = EmptyDict
    /\ constructed = 0
    /\ last_call = NoCall
    /\ filter_calls = <<>>
    /\ vehicles = <<>>

\* no thread has been started
ThreadIdle ==
    /\ heap = <<>>
    /\ threads = <<>>

\* _interpolate_position has not been called on its own
NotInterpolated ==
    [ran |-> FALSE, distance_km |-> 0, result |-> <<>>, heading |-> <<>>]

InterpIdle == interpolated = NotInterpolated

\* no speed and no status has been computed on its own
NotClassified ==
    [op |-> "none", progress |-> 0, speed |-> 0, base_speed |-> 0,
     timestamp |-> 0, index |-> 0, status |-> ""]

StatusIdle == classified = NotClassified

(***************************************************************************)
(* SpecCodec: decode_polyline6 applied to bounded inputs.                  *)
(***************************************************************************)
CodecInit ==
    /\ \/ /\ polyline \in InputStrings
          /\ encoded_from = <<>>
          /\ was_encoded = FALSE
       \/ /\ encoded_from \in InputPoints
          /\ polyline = EncodePolyline6(encoded_from)
          /\ was_encoded = TRUE
    /\ decoded = NotRun
    /\ GraphIdle
    /\ SimIdle
    /\ ThreadIdle
    /\ InterpIdle
    /\ StatusIdle

\* a call decode_polyline6(polyline)
Decode ==
    /\ ~decoded.ran
    /\ decoded' = [raised |-> decode_polyline6(polyline).raised,
                   coordinates |-> decode_polyline6(polyline).coordinates,
                   ran |-> TRUE]
    /\ UNCHANGED <<polyline, encoded_from, was_encoded, graph_vars, sim_vars, thread_vars, interp_vars, status_vars>>

CodecNext == Decode

SpecCodec == CodecInit /\ [][CodecNext]_vars

(***************************************************************************)
(* SpecGraph: a Graph built by add_node and add_edge, and searched.        *)
(***************************************************************************)
GraphInit ==
    /\ GraphIdle
    /\ CodecIdle
    /\ SimIdle
    /\ ThreadIdle
    /\ InterpIdle
    /\ StatusIdle

\* a call graph.add_node(value); it returns None.  The graph is built before
\* it is searched, and the calls enumerated here add a value that has no
\* weight entry of its own yet.
AddNode ==
    \E value \in Values :
        /\ ~search.ran
        /\ \A k \in DOMAIN graph.distances : k[1] # value
        /\ graph' = add_node(graph, value)
        /\ UNCHANGED <<route_definitions, search, codec_vars, sim_vars, thread_vars, interp_vars, status_vars>>

\* a call graph.add_edge(from_node, to_node, distance); it returns None, or
\* raises KeyError and leaves the graph as it was
AddEdge ==
    \E from_node \in Values, to_node \in Values, distance \in Weights :
        /\ ~search.ran
        /\ EdgeCount(graph) < MaxEdges
        /\ <<from_node, to_node>> \notin DOMAIN graph.distances
        /\ \A k \in DOMAIN graph.distances : NotBefore(k, from_node, to_node)
        /\ graph' = IF add_edge_raises(graph, from_node) THEN graph
                    ELSE add_edge(graph, from_node, to_node, distance)
        /\ UNCHANGED <<route_definitions, search, codec_vars, sim_vars, thread_vars, interp_vars, status_vars>>

\* a call dijkstra(graph, initial) on the finished graph
Dijkstra ==
    \E initial \in Values, scan \in ScanOrders(Values) :
        /\ ~search.ran
        /\ search' = [ran |-> TRUE, initial |-> initial]
                          @@ dijkstra(graph, initial, scan)
        /\ UNCHANGED <<route_definitions, graph, codec_vars, sim_vars, thread_vars, interp_vars, status_vars>>

GraphNext == AddNode \/ AddEdge \/ Dijkstra

SpecGraph == GraphInit /\ [][GraphNext]_vars

(***************************************************************************)
(* SpecTie: dijkstra on graphs of four nodes in which two nodes may be     *)
(* reached at the same cost and lead on to a third.                        *)
(***************************************************************************)
TieValues == {"A", "B", "C", "D"}

\* the pairs add_edge may be called with, in the order of the calls
TieEdges ==
    << <<"A", "B">>, <<"A", "C">>, <<"B", "D">>, <<"C", "D">>, <<"B", "C">> >>

\* the Graph after add_node for the four values
TieNodes == add_node(add_node(add_node(add_node(NewGraph, "A"), "B"), "C"), "D")

\* the Graph after add_edge for the pairs of TieEdges from the k-th on whose
\* index is in present, with the weights weight
RECURSIVE tie_graph(_, _, _, _)
tie_graph(g, present, weight, k) ==
    IF k > Len(TieEdges) THEN g
    ELSE IF k \in present
         THEN tie_graph(add_edge(g, TieEdges[k][1], TieEdges[k][2], weight[k]),
                        present, weight, k + 1)
         ELSE tie_graph(g, present, weight, k + 1)

TieGraphs ==
    {tie_graph(TieNodes, present, weight, 1) :
        present \in SUBSET DOMAIN TieEdges,
        weight \in [DOMAIN TieEdges -> Weights]}

TieInit ==
    /\ route_definitions = <<>>
    /\ graph \in TieGraphs
    /\ search = NoSearch
    /\ CodecIdle
    /\ SimIdle
    /\ ThreadIdle
    /\ InterpIdle
    /\ StatusIdle

\* a call dijkstra(graph, initial)
TieDijkstra ==
    \E initial \in TieValues, scan \in ScanOrders(TieValues) :
        /\ ~search.ran
        /\ search' = [ran |-> TRUE, initial |-> initial]
                          @@ dijkstra(graph, initial, scan)
        /\ UNCHANGED <<route_definitions, graph, codec_vars, sim_vars, thread_vars, interp_vars, status_vars>>

TieNext == TieDijkstra

SpecTie == TieInit /\ [][TieNext]_vars

(***************************************************************************)
(* SpecCalls: any sequence of calls of add_node and add_edge on a Graph,   *)
(* a value added again and an edge added again included.                   *)
(***************************************************************************)
\* the values the calls are made with, and the entries the adjacency lists
\* may hold together before a further add_edge
CallValues == {"A", "B"}
MaxCallEdges == 3

CallsInit ==
    /\ GraphIdle
    /\ CodecIdle
    /\ SimIdle
    /\ ThreadIdle
    /\ InterpIdle
    /\ StatusIdle

\* a call graph.add_node(value), value being a node already or not
CallAddNode ==
    \E value \in CallValues :
        /\ graph' = add_node(graph, value)
        /\ UNCHANGED <<route_definitions, search, codec_vars, sim_vars, thread_vars, interp_vars, status_vars>>

\* a call graph.add_edge(from_node, to_node, distance); it returns None, or
\* raises KeyError and leaves the graph as it was
CallAddEdge ==
    \E from_node \in CallValues, to_node \in CallValues, distance \in Weights :
        /\ EdgeCount(graph) < MaxCallEdges
        /\ graph' = IF add_edge_raises(graph, from_node) THEN graph
                    ELSE add_edge(graph, from_node, to_node, distance)
        /\ UNCHANGED <<route_definitions, search, codec_vars, sim_vars, thread_vars, interp_vars, status_vars>>

CallsNext == CallAddNode \/ CallAddEdge

SpecCalls == CallsInit /\ [][CallsNext]_vars

(***************************************************************************)
(* SpecRoutes: build_graph_from_routes applied to route definitions drawn  *)
(* from a catalogue of polylines on the lattice 0..2 x 0..2.               *)
(***************************************************************************)
\* a straight line, a line that ends on it, a line that crosses that one, a
\* U that meets the first line at its two ends and runs along the third, two
\* L shapes that run along parts of the others, and a line that runs along
\* the first, leaves it and comes back to its end
CatalogueLines ==
    { << <<0, 0>>, <<2, 0>> >>,
      << <<1, 0>>, <<1, 2>> >>,
      << <<0, 1>>, <<2, 1>> >>,
      << <<0, 0>>, <<0, 1>>, <<2, 1>>, <<2, 0>> >>,
      << <<1, 0>>, <<2, 0>>, <<2, 1>> >>,
      << <<0, 0>>, <<1, 0>>, <<1, 1>> >>,
      << <<0, 0>>, <<1, 0>>, <<1, 1>>, <<2, 1>>, <<2, 0>> >> }

RouteCatalogue == {[polyline |-> EncodePolyline6(line)] : line \in CatalogueLines}

RoutesInit ==
    /\ GraphIdle
    /\ CodecIdle
    /\ SimIdle
    /\ ThreadIdle
    /\ InterpIdle
    /\ StatusIdle

\* a call build_graph_from_routes(route_definitions) in a fresh process
BuildGraph ==
    /\ route_definitions = <<>>
    /\ graph = NewGraph
    /\ \E defs \in SeqsUpTo(RouteCatalogue, MaxRoutes) :
          /\ route_definitions' = defs
          /\ graph' \in build_graph_from_routes(defs)
    /\ UNCHANGED <<search, codec_vars, sim_vars, thread_vars, interp_vars, status_vars>>

RoutesNext == BuildGraph

SpecRoutes == RoutesInit /\ [][RoutesNext]_vars

(***************************************************************************)
(* SpecSim: calls of generate_vehicle_data, get_tracking_snapshot and      *)
(* _filter_position and FILTER_STATE.clear() in one process, the clock     *)
(* advancing between them.                                                 *)
(***************************************************************************)
\* the counts passed to generate_vehicle_data; get_tracking_snapshot calls
\* it with the default count
GenerateCounts == {1, MaxCount}
DefaultCount == 10

\* the seconds the clock advances before a call
ElapsedChoices == {0, 1}

\* the arguments of direct calls of _filter_position: a key of a vehicle and
\* a key of no vehicle, positions in 1e-9 degrees, and timestamps that need
\* not follow the clock
DirectKeys == {<<"airport-motijheel", 201>>, <<"depot", 0>>}
DirectPositions == {<<0, 0>>, <<2000, 1000>>}
DirectTimestamps == {0, 2, 3}

SimInit ==
    /\ SimIdle
    /\ ThreadIdle
    /\ InterpIdle
    /\ StatusIdle
    /\ GraphIdle
    /\ CodecIdle

\* a call generate_vehicle_data(count)
GenerateVehicleData ==
    /\ last_call.number < MaxCalls
    /\ \E count \in GenerateCounts, elapsed \in ElapsedChoices :
           \E run \in {generate_vehicle_data(ROUTES, FILTER_STATE, constructed, count,
                                             now + elapsed)} :
               /\ now' = now + elapsed
               /\ ROUTES' = run.routes
               /\ FILTER_STATE' = run.store
               /\ constructed' = run.allocated
               /\ filter_calls' = run.calls
               /\ vehicles' = run.vehicles
               /\ last_call' = [op |-> "generate_vehicle_data",
                                number |-> last_call.number + 1,
                                count |-> count,
                                store_was_empty |-> FILTER_STATE = EmptyDict]
               /\ UNCHANGED <<codec_vars, graph_vars, thread_vars, interp_vars, status_vars>>

\* a call get_tracking_snapshot(): its vehicles are generate_vehicle_data()
GetTrackingSnapshot ==
    /\ last_call.number < MaxCalls
    /\ \E elapsed \in ElapsedChoices :
           \E run \in {generate_vehicle_data(ROUTES, FILTER_STATE, constructed,
                                             DefaultCount, now + elapsed)} :
               /\ now' = now + elapsed
               /\ ROUTES' = run.routes
               /\ FILTER_STATE' = run.store
               /\ constructed' = run.allocated
               /\ filter_calls' = run.calls
               /\ vehicles' = run.vehicles
               /\ last_call' = [op |-> "get_tracking_snapshot",
                                number |-> last_call.number + 1,
                                count |-> DefaultCount,
                                store_was_empty |-> FILTER_STATE = EmptyDict]
               /\ UNCHANGED <<codec_vars, graph_vars, thread_vars, interp_vars, status_vars>>

\* a call _filter_position(vehicle_key, timestamp, lat, lng)
FilterPosition ==
    /\ last_call.number < MaxCalls
    /\ \E vehicle_key \in DirectKeys, position \in DirectPositions,
          timestamp \in DirectTimestamps :
           \E filtered \in {_filter_position(FILTER_STATE, constructed, vehicle_key,
                                             timestamp, position[1], position[2])} :
               /\ FILTER_STATE' = filtered.store
               /\ constructed' = filtered.allocated
               /\ filter_calls' = << [vehicle_key |-> vehicle_key,
                                      timestamp |-> timestamp,
                                      lat |-> position[1], lng |-> position[2],
                                      created |-> filtered.created,
                                      result |-> filtered.result,
                                      dt |-> filtered.dt] >>
               /\ vehicles' = <<>>
               /\ last_call' = [op |-> "_filter_position",
                                number |-> last_call.number + 1,
                                count |-> 0,
                                store_was_empty |-> FILTER_STATE = EmptyDict]
               /\ UNCHANGED <<now, ROUTES, codec_vars, graph_vars, thread_vars, interp_vars, status_vars>>

\* FILTER_STATE.clear(), as the tests' setUp does
ClearFilterState ==
    /\ last_call.number < MaxCalls
    /\ FILTER_STATE' = EmptyDict
    /\ filter_calls' = <<>>
    /\ vehicles' = <<>>
    /\ last_call' = [op |-> "clear",
                     number |-> last_call.number + 1,
                     count |-> 0,
                     store_was_empty |-> FILTER_STATE = EmptyDict]
    /\ UNCHANGED <<now, ROUTES, constructed, codec_vars, graph_vars, thread_vars, interp_vars, status_vars>>

SimNext ==
    \/ GenerateVehicleData
    \/ GetTrackingSnapshot
    \/ FilterPosition
    \/ ClearFilterState

SpecSim == SimInit /\ [][SimNext]_vars

(***************************************************************************)
(* SpecConc: two threads call _filter_position for the same key.  Nothing  *)
(* in services.py takes a lock, so the threads interleave between the      *)
(* statements of _filter_position and KalmanFilter2D.step.  heap holds the *)
(* KalmanFilter2D objects by identity, and FILTER_STATE shows each key     *)
(* with the present fields of the object it is bound to.                   *)
(***************************************************************************)
ConcKey == <<"airport-motijheel", 201>>

\* the arguments of the two calls
ThreadTimestamps == {2, 3}
ThreadPositions == << <<2000, 1000>>, <<0, 0>> >>

\* the store after one call _filter_position(ConcKey, 1, 1000, 1000)
StoredOnce == _filter_position(EmptyDict, 0, ConcKey, 1, 1000, 1000).store

\* the store, reading every object from objects
Referenced(store, objects) ==
    [key \in DOMAIN store |-> objects[store[key].instance]]

\* a thread about to call _filter_position(vehicle_key, timestamp, lat, lng)
ThreadAt(timestamp, position) ==
    [pc |-> "get", vehicle_key |-> ConcKey, timestamp |-> timestamp,
     lat |-> position[1], lng |-> position[2], kalman |-> 0, dt |-> 0,
     result |-> <<>>]

ConcInit ==
    /\ now = 0
    /\ ROUTES = _build_routes
    /\ filter_calls = <<>>
    /\ vehicles = <<>>
    /\ \E store \in {EmptyDict, StoredOnce} :
           /\ FILTER_STATE = store
           /\ heap = [id \in 1..Cardinality(DOMAIN store) |-> store[ConcKey]]
           /\ constructed = Cardinality(DOMAIN store)
           /\ last_call = [op |-> "threads", number |-> 0, count |-> 2,
                           store_was_empty |-> store = EmptyDict]
    /\ \E first \in ThreadTimestamps, second \in ThreadTimestamps :
           threads = <<ThreadAt(first, ThreadPositions[1]),
                       ThreadAt(second, ThreadPositions[2])>>
    /\ InterpIdle
    /\ StatusIdle
    /\ GraphIdle
    /\ CodecIdle

\* line 434 and the test of line 435: kalman = FILTER_STATE.get(vehicle_key)
ThreadGet ==
    \E t \in DOMAIN threads :
        /\ threads[t].pc = "get"
        /\ threads' =
               IF threads[t].vehicle_key \in DOMAIN FILTER_STATE
               THEN [threads EXCEPT
                        ![t].kalman = FILTER_STATE[threads[t].vehicle_key].instance,
                        ![t].pc = "step"]
               ELSE [threads EXCEPT ![t].kalman = 0, ![t].pc = "create"]
        /\ UNCHANGED <<heap, sim_vars, codec_vars, graph_vars, interp_vars, status_vars>>

\* line 436: kalman = KalmanFilter2D()
ThreadCreate ==
    \E t \in DOMAIN threads :
        /\ threads[t].pc = "create"
        /\ heap' = Append(heap, KalmanFilter2D(Len(heap) + 1))
        /\ constructed' = constructed + 1
        /\ threads' = [threads EXCEPT ![t].kalman = Len(heap) + 1,
                                      ![t].pc = "store"]
        /\ UNCHANGED <<now, ROUTES, FILTER_STATE, last_call, filter_calls, vehicles,
                       codec_vars, graph_vars, interp_vars, status_vars>>

\* line 437: FILTER_STATE[vehicle_key] = kalman
ThreadStore ==
    \E t \in DOMAIN threads :
        /\ threads[t].pc = "store"
        /\ FILTER_STATE' = (threads[t].vehicle_key :> heap[threads[t].kalman])
                               @@ FILTER_STATE
        /\ threads' = [threads EXCEPT ![t].pc = "step"]
        /\ UNCHANGED <<now, ROUTES, constructed, last_call, filter_calls, vehicles,
                       heap, codec_vars, graph_vars, interp_vars, status_vars>>

\* line 62: if self.state is None or self.covariance is None
ThreadStepTest ==
    \E t \in DOMAIN threads :
        /\ threads[t].pc = "step"
        /\ threads' =
               IF \/ heap[threads[t].kalman].state = <<>>
                  \/ heap[threads[t].kalman].covariance = <<>>
               THEN [threads EXCEPT ![t].pc = "first"]
               ELSE [threads EXCEPT ![t].pc = "dt"]
        /\ UNCHANGED <<heap, sim_vars, codec_vars, graph_vars, interp_vars, status_vars>>

\* lines 63-71: the first observation is stored and returned
ThreadStepFirst ==
    \E t \in DOMAIN threads :
        /\ threads[t].pc = "first"
        /\ heap' = [heap EXCEPT ![threads[t].kalman] =
                       [@ EXCEPT !.state = <<threads[t].lat, threads[t].lng, 0, 0>>,
                                 !.covariance = initial_covariance,
                                 !.last_timestamp = <<threads[t].timestamp>>]]
        /\ FILTER_STATE' = Referenced(FILTER_STATE, heap')
        /\ threads' = [threads EXCEPT
                          ![t].result = <<threads[t].lat, threads[t].lng>>,
                          ![t].pc = "done"]
        /\ UNCHANGED <<now, ROUTES, constructed, last_call, filter_calls, vehicles,
                       codec_vars, graph_vars, interp_vars, status_vars>>

\* line 73: dt = max(timestamp - (self.last_timestamp or timestamp), 1.0)
ThreadStepDt ==
    \E t \in DOMAIN threads :
        /\ threads[t].pc = "dt"
        /\ threads' = [threads EXCEPT
                          ![t].dt = Max(threads[t].timestamp
                                        - LastOr(heap[threads[t].kalman].last_timestamp,
                                                 threads[t].timestamp), 1),
                          ![t].pc = "stamp"]
        /\ UNCHANGED <<heap, sim_vars, codec_vars, graph_vars, interp_vars, status_vars>>

\* line 74: self.last_timestamp = timestamp
ThreadStepStamp ==
    \E t \in DOMAIN threads :
        /\ threads[t].pc = "stamp"
        /\ heap' = [heap EXCEPT ![threads[t].kalman].last_timestamp =
                                    <<threads[t].timestamp>>]
        /\ FILTER_STATE' = Referenced(FILTER_STATE, heap')
        /\ threads' = [threads EXCEPT ![t].pc = "predict"]
        /\ UNCHANGED <<now, ROUTES, constructed, last_call, filter_calls, vehicles,
                       codec_vars, graph_vars, interp_vars, status_vars>>

\* line 75: self._predict(dt)
ThreadStepPredict ==
    \E t \in DOMAIN threads :
        /\ threads[t].pc = "predict"
        /\ heap' = [heap EXCEPT ![threads[t].kalman] = _predict(@, threads[t].dt)]
        /\ FILTER_STATE' = Referenced(FILTER_STATE, heap')
        /\ threads' = [threads EXCEPT ![t].pc = "update"]
        /\ UNCHANGED <<now, ROUTES, constructed, last_call, filter_calls, vehicles,
                       codec_vars, graph_vars, interp_vars, status_vars>>

\* line 76: return self._update(lat, lng)
ThreadStepUpdate ==
    \E t \in DOMAIN threads :
        /\ threads[t].pc = "update"
        /\ \E updated \in {_update(heap[threads[t].kalman], threads[t].lat,
                                   threads[t].lng)} :
               /\ heap' = [heap EXCEPT ![threads[t].kalman] = updated.self]
               /\ FILTER_STATE' = Referenced(FILTER_STATE, heap')
               /\ threads' = [threads EXCEPT ![t].result = updated.result,
                                             ![t].pc = "done"]
        /\ UNCHANGED <<now, ROUTES, constructed, last_call, filter_calls, vehicles,
                       codec_vars, graph_vars, interp_vars, status_vars>>

ConcNext ==
    \/ ThreadGet
    \/ ThreadCreate
    \/ ThreadStore
    \/ ThreadStepTest
    \/ ThreadStepFirst
    \/ ThreadStepDt
    \/ ThreadStepStamp
    \/ ThreadStepPredict
    \/ ThreadStepUpdate

SpecConc == ConcInit /\ [][ConcNext]_vars

(***************************************************************************)
(* SpecBuild: the import of services.py, where line 429 binds ROUTES to    *)
(* _build_routes() of the ROUTE_DEFINITIONS of the module, here a sequence *)
(* of definitions of a catalogue.                                          *)
(***************************************************************************)
\* definitions: two of the shipped kind, one without average_speed_kmh, one
\* slower than the floor on a polyline long enough to loop in more than 900
\* seconds, one whose polyline is empty, one of a single point and one that
\* repeats a point
DefinitionCatalogue ==
    { ROUTE_DEFINITIONS[1],
      [id |-> "no-speed",
       polyline |-> EncodePolyline6(<< <<0, 1000>>, <<0, 9000>>,
                                       <<10000, 9000>> >>)],
      [id |-> "slow", average_speed_kmh |-> 3,
       polyline |-> EncodePolyline6(<< <<40000, 3000>>, <<24000, 3000>>,
                                       <<24000, 6000>>, <<0, 6000>> >>)],
      [id |-> "empty", average_speed_kmh |-> 48, polyline |-> <<>>],
      [id |-> "single", average_speed_kmh |-> 5,
       polyline |-> EncodePolyline6(<< <<2000, 2000>> >>)],
      [id |-> "repeated", average_speed_kmh |-> 6,
       polyline |-> EncodePolyline6(<< <<2000, 0>>, <<2000, 0>>, <<30000, 0>>,
                                       <<30000, 0>>, <<0, 0>> >>)] }

MaxDefinitions == 3

BuildInit ==
    /\ route_definitions \in SeqsUpTo(DefinitionCatalogue, MaxDefinitions)
    /\ graph = NewGraph
    /\ search = NoSearch
    /\ now = 0
    /\ ROUTES = <<>>
    /\ FILTER_STATE = EmptyDict
    /\ constructed = 0
    /\ last_call = NoCall
    /\ filter_calls = <<>>
    /\ vehicles = <<>>
    /\ ThreadIdle
    /\ InterpIdle
    /\ StatusIdle
    /\ CodecIdle

\* line 429: ROUTES = _build_routes()
BuildRoutes ==
    /\ last_call.op = "none"
    /\ ROUTES' = build_routes_from(route_definitions, 1)
    /\ last_call' = [op |-> "_build_routes", number |-> 1, count |-> 0,
                     store_was_empty |-> TRUE]
    /\ UNCHANGED <<now, FILTER_STATE, constructed, filter_calls, vehicles,
                   codec_vars, graph_vars, thread_vars, interp_vars, status_vars>>

BuildNext == BuildRoutes

SpecBuild == BuildInit /\ [][BuildNext]_vars

(***************************************************************************)
(* SpecTrack: a client polls get_tracking_snapshot, the filters persisting *)
(* from poll to poll, from a time at which the vehicles are under way or   *)
(* about to wrap from the end of their routes to the start.                *)
(***************************************************************************)
MaxPolls == 4

\* the clock at the import of the module, and the seconds between polls
StartTimes == {0, 360, 720, 896}
PollIntervals == {1, 2}

TrackInit ==
    /\ now \in StartTimes
    /\ ROUTES = _build_routes
    /\ FILTER_STATE = EmptyDict
    /\ constructed = 0
    /\ last_call = NoCall
    /\ filter_calls = <<>>
    /\ vehicles = <<>>
    /\ ThreadIdle
    /\ InterpIdle
    /\ StatusIdle
    /\ GraphIdle
    /\ CodecIdle

\* a poll: get_tracking_snapshot(), whose vehicles are
\* generate_vehicle_data()
PollSnapshot ==
    /\ last_call.number < MaxPolls
    /\ \E elapsed \in PollIntervals :
           \E run \in {generate_vehicle_data(ROUTES, FILTER_STATE, constructed,
                                             DefaultCount, now + elapsed)} :
               /\ now' = now + elapsed
               /\ ROUTES' = run.routes
               /\ FILTER_STATE' = run.store
               /\ constructed' = run.allocated
               /\ filter_calls' = run.calls
               /\ vehicles' = run.vehicles
               /\ last_call' = [op |-> "get_tracking_snapshot",
                                number |-> last_call.number + 1,
                                count |-> DefaultCount,
                                store_was_empty |-> FILTER_STATE = EmptyDict]
               /\ UNCHANGED <<codec_vars, graph_vars, thread_vars, interp_vars, status_vars>>

TrackNext == PollSnapshot

SpecTrack == TrackInit /\ [][TrackNext]_vars

(***************************************************************************)
(* SpecInterp: _interpolate_position(route, distance_km) applied to routes *)
(* given by their cumulative table, zero-length segments included.         *)
(***************************************************************************)
\* the tables; [0, 5, 12, 20] is the one the specification gives
CumulativeTables ==
    { <<0, 5, 12, 20>>, <<0, 0, 7>>, <<0, 5, 5, 9>>, <<0>>, <<0, 3>>,
      <<0, 4, 4, 4, 10>>, <<0, 0>> }

\* the point at the distance c along the path of the routes below, which
\* is not a straight line
PointAt(c) == <<7 * c, 7 * c * c>>

\* the route _build_routes makes of points whose cumulative table is
\* cumulative
TableRoute(cumulative) ==
    LET coords == [i \in DOMAIN cumulative |-> PointAt(cumulative[i])]
        length_km == cumulative[Len(cumulative)]
    IN [id |-> "table",
        points |-> coords,
        point_dicts |-> coords,
        cumulative_km |-> cumulative,
        length_km |-> length_km,
        average_speed_kmh |-> 35,
        loop_seconds |-> 900,
        origin |-> coords[1],
        destination |-> coords[Len(coords)]]

\* the distances asked for: below 0, on and between the entries, beyond the
\* end
Distances == -1..21

InterpInit ==
    /\ \E cumulative \in CumulativeTables : ROUTES = <<TableRoute(cumulative)>>
    /\ now = 0
    /\ FILTER_STATE = EmptyDict
    /\ constructed = 0
    /\ last_call = NoCall
    /\ filter_calls = <<>>
    /\ vehicles = <<>>
    /\ ThreadIdle
    /\ InterpIdle
    /\ StatusIdle
    /\ GraphIdle
    /\ CodecIdle

\* lines 459-460: a call _interpolate_position(ROUTES[0], distance_km) and
\* the call of _route_heading on what it returned
InterpolatePosition ==
    /\ \E distance_km \in Distances :
           \E raw \in {_interpolate_position(ROUTES[1], distance_km)} :
               interpolated' = [ran |-> TRUE, distance_km |-> distance_km,
                                result |-> raw,
                                heading |-> _route_heading(ROUTES[1], raw[3],
                                                           raw[1], raw[2])]
    /\ UNCHANGED <<sim_vars, codec_vars, graph_vars, thread_vars, status_vars>>

InterpNext == InterpolatePosition

SpecInterp == InterpInit /\ [][InterpNext]_vars

(***************************************************************************)
(* SpecStatus: the speed and the status generate_vehicle_data gives a      *)
(* vehicle, as functions of their arguments.                               *)
(***************************************************************************)
\* progress in millionths: 0, next to and on 0.05 and 0.95, the middle, 1
Progresses == {0, 49999, 50000, 50001, 500000, 949999, 950000, 950001, 999999}

\* base speeds in 1/1000 km/h: the floor 5, 10, 14, 15 and the shipped 35,
\* 42 and 48 km/h, and the speeds next to and on 0.6 of each
BaseSpeeds == {5000, 10000, 14000, 15000, 35000, 42000, 48000}
SpeedsFor(base_speed) ==
    {8000, (6 * base_speed) \div 10 - 1, (6 * base_speed) \div 10,
     (6 * base_speed) \div 10 + 1, base_speed}

StatusInit ==
    /\ SimIdle
    /\ ThreadIdle
    /\ InterpIdle
    /\ StatusIdle
    /\ GraphIdle
    /\ CodecIdle

\* a call _determine_status(progress, speed, base_speed)
DetermineStatus ==
    /\ \E progress \in Progresses, base_speed \in BaseSpeeds :
           \E speed \in SpeedsFor(base_speed) :
               classified' = [op |-> "_determine_status",
                              progress |-> progress, speed |-> speed,
                              base_speed |-> base_speed,
                              timestamp |-> 0, index |-> 0,
                              status |-> _determine_status(progress, speed,
                                                           base_speed)]
    /\ UNCHANGED <<sim_vars, codec_vars, graph_vars, thread_vars, interp_vars>>

\* the angles (now.timestamp() / 90.0) in 1/1000 radians: the eighths of
\* the turn, the angle that makes the sine of the vehicle of index 1 lowest,
\* and angles of the second turn; the timestamps count from a whole number
\* of turns of the sine and of loops of the routes
SpeedAngles ==
    {0, 785, 1571, 2356, 3142, 3927, 4013, 4713, 5498, 6283, 6284, 7855, 9500}
SpeedTimestamps == {90 * angle : angle \in SpeedAngles}
SpeedIndices == {0, 1, 2, 9}
LoopSeconds == {900, 1205}

\* lines 452-468 of generate_vehicle_data for one index: the progress, the
\* speed and the status of the vehicle on a route of the given loop_seconds
\* and average speed
SimulateSpeed ==
    /\ \E timestamp \in SpeedTimestamps, index \in SpeedIndices,
          base_speed \in BaseSpeeds, loop_seconds \in LoopSeconds :
           \E progress \in {progress_fraction(loop_seconds, timestamp, index)},
              speed \in {speed_kmh(base_speed, timestamp, index)} :
               classified' = [op |-> "generate_vehicle_data",
                              progress |-> progress, speed |-> speed,
                              base_speed |-> base_speed,
                              timestamp |-> timestamp, index |-> index,
                              status |-> _determine_status(progress, speed,
                                                           base_speed)]
    /\ UNCHANGED <<sim_vars, codec_vars, graph_vars, thread_vars, interp_vars>>

StatusNext == DetermineStatus \/ SimulateSpeed

SpecStatus == StatusInit /\ [][StatusNext]_vars

(***************************************************************************)
(* SpecFleet: generate_vehicle_data on other ROUTES than the shipped ones: *)
(* a route of a single point, one that repeats points, one of more         *)
(* vertices than a trail holds, and no route at all.                       *)
(***************************************************************************)
\* the vertices of the long route: LongVertices points, LongStep
\* microdegrees of latitude apart
LongVertices == 64
LongStep == 100

LongLine == [k \in 1..LongVertices |-> <<(k - 1) * LongStep, 3000>>]

\* the routes _build_routes makes of definitions whose polylines decode to
\* these coordinates
FleetRoutes ==
    { _build_routes[1],
      build_route([id |-> "single", average_speed_kmh |-> 5],
                  << <<2000, 2000>> >>),
      build_route([id |-> "repeated", average_speed_kmh |-> 6],
                  << <<2000, 0>>, <<2000, 0>>, <<30000, 0>>, <<30000, 0>>,
                     <<0, 0>> >>),
      build_route([id |-> "long", average_speed_kmh |-> 5], LongLine) }

MaxFleetRoutes == 2

\* the clock at the import of the module: the start of the loops, and a time
\* at which the first vehicle is about to finish its loop
FleetStartTimes == {0, 889}
FleetCounts == {1, 3}

\* the seconds the clock advances before a call
FleetElapsed == {0, 1, 5}

FleetInit ==
    /\ now \in FleetStartTimes
    /\ ROUTES \in SeqsUpTo(FleetRoutes, MaxFleetRoutes)
    /\ FILTER_STATE = EmptyDict
    /\ constructed = 0
    /\ last_call = NoCall
    /\ filter_calls = <<>>
    /\ vehicles = <<>>
    /\ ThreadIdle
    /\ InterpIdle
    /\ StatusIdle
    /\ GraphIdle
    /\ CodecIdle

\* a call generate_vehicle_data(count)
FleetGenerate ==
    /\ last_call.number < MaxCalls
    /\ \E count \in FleetCounts, elapsed \in FleetElapsed :
           \E run \in {generate_vehicle_data(ROUTES, FILTER_STATE, constructed, count,
                                             now + elapsed)} :
               /\ now' = now + elapsed
               /\ ROUTES' = run.routes
               /\ FILTER_STATE' = run.store
               /\ constructed' = run.allocated
               /\ filter_calls' = run.calls
               /\ vehicles' = run.vehicles
               /\ last_call' = [op |-> "generate_vehicle_data",
                                number |-> last_call.number + 1,
                                count |-> count,
                                store_was_empty |-> FILTER_STATE = EmptyDict]
               /\ UNCHANGED <<codec_vars, graph_vars, thread_vars, interp_vars, status_vars>>

FleetNext == FleetGenerate

SpecFleet == FleetInit /\ [][FleetNext]_vars

(***************************************************************************)
(* Claims about the codec (specification SpecCodec).                       *)
(***************************************************************************)
\* the number of complete values in s: characters that end a group
NumValues(s) == Cardinality({i \in DOMAIN s : s[i] - 63 < 32})

\* s ends inside a value group: its last character carries the continuation bit
EndsInsideGroup(s) == Len(s) > 0 /\ s[Len(s)] - 63 >= 32

\* C1: decoding the standard polyline6 encoding of a sequence of micro-degree
\* points returns the same points in the same order (the deltas accumulate on
\* running totals), and decoding "AA" returns the single coordinate
\* (0.000001, 0.000001).
C1_RoundTrip ==
    decoded.ran =>
        /\ was_encoded =>
              /\ ~decoded.raised
              /\ decoded.coordinates = encoded_from
        /\ polyline = <<65, 65>> =>
              /\ ~decoded.raised
              /\ decoded.coordinates = << <<1, 1>> >>

\* two points, the second away from the first, one delta of several characters
C1_Witness ==
    /\ decoded.ran
    /\ was_encoded
    /\ Len(encoded_from) = 2
    /\ encoded_from[1] # <<0, 0>>
    /\ encoded_from[2] # encoded_from[1]
    /\ Len(polyline) > 4
    /\ decoded.coordinates = encoded_from

\* C2: decode_polyline6 raises exactly when the input ends inside a value
\* group or holds an odd number of values (a latitude without its longitude);
\* when it raises it returns no coordinate, and otherwise it returns one
\* coordinate for every two complete values of the input.
C2_DecodeOrRaise ==
    decoded.ran =>
        /\ decoded.raised <=>
              (EndsInsideGroup(polyline) \/ NumValues(polyline) % 2 = 1)
        /\ decoded.raised => decoded.coordinates = <<>>
        /\ ~decoded.raised => 2 * Len(decoded.coordinates) = NumValues(polyline)

\* an input of one whole coordinate followed by an unfinished group raises
C2_Witness ==
    /\ decoded.ran
    /\ decoded.raised
    /\ ~was_encoded
    /\ NumValues(polyline) = 2
    /\ EndsInsideGroup(polyline)

(***************************************************************************)
(* Claims about dijkstra (specification SpecGraph).                        *)
(* The reference: the nodes an adjacency list leads to, and the least      *)
(* total weight of a path, computed by rounds of relaxation over all       *)
(* edges (Bellman-Ford), -1 standing for "no path found yet".              *)
(***************************************************************************)
Successors(g, S) ==
    UNION {Range(g.edges[u]) : u \in S \cap DOMAIN g.edges}

RECURSIVE ReachableFrom(_, _)
ReachableFrom(g, S) ==
    IF Successors(g, S) \subseteq S THEN S
    ELSE ReachableFrom(g, S \cup Successors(g, S))

Reachable(g, start) == ReachableFrom(g, {start})

SetMin(S) == CHOOSE x \in S : \A y \in S : x <= y

HasEdge(g, u, v) == u \in DOMAIN g.edges /\ v \in Range(g.edges[u])

RelaxAll(g, d) ==
    [v \in DOMAIN d |->
        LET cands == ({d[v]} \ {-1}) \cup
                     {d[u] + g.distances[<<u, v>>] :
                         u \in {x \in DOMAIN d : d[x] # -1 /\ HasEdge(g, x, v)}}
        IN IF cands = {} THEN -1 ELSE SetMin(cands)]

RECURSIVE RelaxRounds(_, _, _)
RelaxRounds(g, d, k) == IF k = 0 THEN d ELSE RelaxRounds(g, RelaxAll(g, d), k - 1)

MinDistances(g, start) ==
    RelaxRounds(g, [v \in Reachable(g, start) |-> IF v = start THEN 0 ELSE -1],
                Cardinality(Reachable(g, start)))

\* the path graph A - B - C with weights 2 and 3, each edge in both directions
PathABC ==
    add_edge(add_edge(add_edge(add_edge(
        add_node(add_node(add_node(NewGraph, "A"), "B"), "C"),
        "A", "B", 2), "B", "A", 2), "B", "C", 3), "C", "B", 3)

\* C3: dijkstra(graph, start) on a start node ends within one loop iteration
\* per graph node and gives every node reachable from start the least total
\* weight of a path from start, 0 for start; on the path graph A-B-C with
\* weights 2 and 3 the distances from A are A:0, B:2, C:5.
C3_ShortestDistances ==
    (search.ran /\ search.initial \in graph.nodes) =>
        /\ ~search.raised
        /\ search.iterations <= Cardinality(graph.nodes)
        /\ search.visited[search.initial] = 0
        /\ \A v \in Reachable(graph, search.initial) :
              /\ v \in DOMAIN search.visited
              /\ search.visited[v] = MinDistances(graph, search.initial)[v]
        /\ (graph = PathABC /\ search.initial = "A") =>
              search.visited = ("A" :> 0) @@ ("B" :> 2) @@ ("C" :> 5)

C3_Witness ==
    /\ search.ran
    /\ graph = PathABC
    /\ search.initial = "A"
    /\ search.iterations = 3
    /\ search.visited = ("A" :> 0) @@ ("B" :> 2) @@ ("C" :> 5)

\* the walk along the predecessors from v: whether it arrives at start
\* without meeting a node twice, and the weights it adds up
RECURSIVE WalkBack(_, _, _, _, _, _)
WalkBack(g, path, v, start, seen, total) ==
    IF v = start THEN [arrives |-> TRUE, total |-> total]
    ELSE IF v \in seen \/ v \notin DOMAIN path
              \/ <<path[v], v>> \notin DOMAIN g.distances
         THEN [arrives |-> FALSE, total |-> total]
         ELSE WalkBack(g, path, path[v], start, seen \cup {v},
                       total + g.distances[<<path[v], v>>])

\* C4: the predecessor map of dijkstra(graph, start) has no entry for start
\* and, for every other reached node v, an entry p with an edge p -> v and
\* dist[v] = dist[p] + weight(p, v); the walk along the predecessors from a
\* reached node arrives at start without meeting a node twice, and its
\* weights add up to dist[v] (C -> B -> A on the path graph A-B-C).
C4_Predecessors ==
    search.ran =>
        /\ search.initial \notin DOMAIN search.path
        /\ DOMAIN search.path = DOMAIN search.visited \ {search.initial}
        /\ \A v \in DOMAIN search.path :
              LET p == search.path[v]
              IN /\ HasEdge(graph, p, v)
                 /\ p \in DOMAIN search.visited
                 /\ search.visited[v] = search.visited[p] + graph.distances[<<p, v>>]
        /\ \A v \in DOMAIN search.visited :
              LET w == WalkBack(graph, search.path, v, search.initial, {}, 0)
              IN w.arrives /\ w.total = search.visited[v]
        /\ (graph = PathABC /\ search.initial = "A") =>
              search.path = ("C" :> "B") @@ ("B" :> "A")

\* a node whose edge from start is heavier than the way round through its
\* predecessor
C4_Witness ==
    /\ search.ran
    /\ \E v \in DOMAIN search.path :
          /\ HasEdge(graph, search.initial, v)
          /\ search.path[v] # search.initial
          /\ search.path[v] # v
          /\ search.visited[v] < graph.distances[<<search.initial, v>>]

\* C5: dijkstra returns without raising for every start value, a graph node
\* or not, and a node that no path from start reaches is in neither the
\* distance map nor the predecessor map.
C5_UnreachableAbsent ==
    search.ran =>
        /\ ~search.raised
        /\ \A v \in Values \ Reachable(graph, search.initial) :
              /\ v \notin DOMAIN search.visited
              /\ v \notin DOMAIN search.path

\* a start that is no node of a graph that has edges, and a start node that
\* leaves a node with edges of its own unreached
C5_Witness ==
    /\ search.ran
    /\ ~search.raised
    /\ \/ /\ search.initial \notin graph.nodes
          /\ EdgeCount(graph) > 0
          /\ search.visited = (search.initial :> 0)
          /\ search.path = EmptyDict
       \/ /\ search.initial \in graph.nodes
          /\ Len(graph.edges[search.initial]) > 0
          /\ \E v \in graph.nodes \ DOMAIN search.visited : Len(graph.edges[v]) > 0

(***************************************************************************)
(* Claims about ties in dijkstra, checked under SpecTie.                   *)
(***************************************************************************)
\* the unsettled nodes with a tentative cost, and those of minimal cost
Candidates(nodes, visited) == nodes \cap DOMAIN visited
Minimal(nodes, visited) ==
    {n \in Candidates(nodes, visited) :
        \A m \in Candidates(nodes, visited) : visited[n] <= visited[m]}

\* the first element of scan among the nodes of minimal cost
FirstMinimal(scan, nodes, visited) ==
    LET k == CHOOSE i \in 1..Len(scan) :
                 /\ scan[i] \in Minimal(nodes, visited)
                 /\ \A j \in 1..(i - 1) : scan[j] \notin Minimal(nodes, visited)
    IN scan[k]

\* C24: among the unsettled nodes of minimal tentative cost, the selection
\* takes the first one its scan of the node set meets; and whatever the scan
\* order, a search of the graph from the same node returns the same
\* distance map (the weights are not negative)
C24_ScanOrderIndependent ==
    (search.ran /\ ~search.raised) =>
        \A scan \in ScanOrders(TieValues) :
            /\ \A settled \in SUBSET graph.nodes :
                   LET nodes == graph.nodes \ settled
                   IN select_min(scan, 1, nodes, search.visited, <<>>)
                          = IF Candidates(nodes, search.visited) = {} THEN <<>>
                            ELSE <<FirstMinimal(scan, nodes, search.visited)>>
            /\ dijkstra(graph, search.initial, scan).visited = search.visited

\* two nodes were reached at the same cost, and another scan order returns
\* other predecessors than the search made
C24_Witness ==
    /\ search.ran
    /\ ~search.raised
    /\ \E n \in graph.nodes, m \in graph.nodes :
           /\ n # m
           /\ n \in DOMAIN search.visited
           /\ m \in DOMAIN search.visited
           /\ search.visited[n] = search.visited[m]
    /\ \E scan \in ScanOrders(TieValues) :
           dijkstra(graph, search.initial, scan).path # search.path

(***************************************************************************)
(* Claims about the Graph under any calls, checked under SpecCalls.        *)
(***************************************************************************)
\* C25: after any calls of add_node and add_edge, v is in edges[u] if and
\* only if (u, v) is a key of distances, and every node has an entry in
\* edges; so adding a node again does not lose its outgoing edges
C25_AdjacencyMatchesWeights ==
    /\ \A u \in CallValues, v \in CallValues :
           (u \in DOMAIN graph.edges /\ v \in Range(graph.edges[u]))
               <=> (<<u, v>> \in DOMAIN graph.distances)
    /\ graph.nodes \subseteq DOMAIN graph.edges

(***************************************************************************)
(* Claims about build_graph_from_routes, checked under SpecRoutes.         *)
(***************************************************************************)
\* the graph is the one build_graph_from_routes returned for route_definitions
GraphBuilt == route_definitions # <<>>

\* the decoded vertices of route i
RouteVertices(i) == decode_polyline6(route_definitions[i].polyline).coordinates

\* v is in edges[u], with the weight w
EdgeWithWeight(u, v, w) ==
    /\ u \in DOMAIN graph.edges
    /\ v \in Range(graph.edges[u])
    /\ <<u, v>> \in DOMAIN graph.distances
    /\ graph.distances[<<u, v>>] = w

\* C6: build_graph_from_routes adds every decoded vertex of every route as a
\* node and joins each pair of consecutive vertices of a route by an edge in
\* both directions, weighted by the haversine distance between them; a single
\* route with n vertices yields n nodes and a chain of n - 1 such edges.
C6_VertexChain ==
    GraphBuilt =>
        \A i \in DOMAIN route_definitions :
            LET coords == RouteVertices(i)
            IN /\ Range(coords) \subseteq graph.nodes
               /\ \A k \in 1..(Len(coords) - 1) :
                      /\ EdgeWithWeight(coords[k], coords[k + 1],
                                        haversine_km(coords[k], coords[k + 1]))
                      /\ EdgeWithWeight(coords[k + 1], coords[k],
                                        haversine_km(coords[k + 1], coords[k]))

\* C7: every graph returned by build_graph_from_routes is undirected: when v
\* is in edges[u] with weight distances[(u, v)], u is in edges[v] and
\* distances[(v, u)] is the same weight; every edge endpoint is a node of the
\* graph, and no node has an edge to itself.
C7_Undirected ==
    GraphBuilt =>
        /\ DOMAIN graph.edges \subseteq graph.nodes
        /\ \A u \in DOMAIN graph.edges :
               \A v \in Range(graph.edges[u]) :
                   /\ v \in graph.nodes
                   /\ u # v
                   /\ <<u, v>> \in DOMAIN graph.distances
                   /\ EdgeWithWeight(v, u, graph.distances[<<u, v>>])
        /\ \A k \in DOMAIN graph.distances :
               /\ k[1] \in graph.nodes
               /\ k[2] \in graph.nodes
               /\ k[1] # k[2]
               /\ EdgeWithWeight(k[1], k[2], graph.distances[k])

\* a graph built from three routes, with edges of two different weights
C7_Witness ==
    /\ Len(route_definitions) = 3
    /\ \E j, k \in DOMAIN graph.distances :
           graph.distances[j] # graph.distances[k]

(***************************************************************************)
(* Claims about the filter store and the simulator, checked under SpecSim. *)
(***************************************************************************)
\* the last call returned a list of vehicles
Generation == last_call.op \in {"generate_vehicle_data", "get_tracking_snapshot"}

\* the k-th call of _filter_position of the last call was the last one for
\* its key
LastForKey(k) ==
    \A later \in (k + 1)..Len(filter_calls) :
        filter_calls[later].vehicle_key # filter_calls[k].vehicle_key

\* covariance diag(1e-3, 1e-3, 1e-2, 1e-2)
InitialCovariance ==
    << <<Dec[1, 3], <<0, 0>>, <<0, 0>>, <<0, 0>> >>,
       << <<0, 0>>, Dec[1, 3], <<0, 0>>, <<0, 0>> >>,
       << <<0, 0>>, <<0, 0>>, Dec[1, 2], <<0, 0>> >>,
       << <<0, 0>>, <<0, 0>>, <<0, 0>>, Dec[1, 2]>> >>

\* C8: the first observation for a key stores state [lat, lng, 0, 0],
\* covariance diag(1e-3, 1e-3, 1e-2, 1e-2) and the timestamp given, and
\* returns the observation unchanged; and in a snapshot produced from an
\* empty (cleared) store every vehicle's location equals its raw_location.
C8_FirstObservation ==
    /\ \A k \in 1..Len(filter_calls) :
           LET call == filter_calls[k]
           IN call.created =>
                  /\ call.result = <<call.lat, call.lng>>
                  /\ LastForKey(k) =>
                         LET kalman == FILTER_STATE[call.vehicle_key]
                         IN /\ kalman.state = <<call.lat, call.lng, 0, 0>>
                            /\ kalman.covariance = InitialCovariance
                            /\ kalman.last_timestamp = <<call.timestamp>>
    /\ (last_call.op = "get_tracking_snapshot" /\ last_call.store_was_empty) =>
           \A k \in 1..Len(vehicles) :
               vehicles[k].location = vehicles[k].raw_location

\* a snapshot of ten vehicles at different places, produced from an empty
\* store after an earlier call
C8_Witness ==
    /\ last_call.op = "get_tracking_snapshot"
    /\ last_call.store_was_empty
    /\ last_call.number = 2
    /\ Len(vehicles) = DefaultCount
    /\ \A k \in 1..Len(filter_calls) : filter_calls[k].created
    /\ \E j, k \in 1..Len(vehicles) : vehicles[j].location # vehicles[k].location

\* every key of the store stays, bound to the same object
StoreKept ==
    \A key \in DOMAIN FILTER_STATE :
        /\ key \in DOMAIN FILTER_STATE'
        /\ FILTER_STATE'[key].instance = FILTER_STATE[key].instance

\* a key enters the store at a call of _filter_position for it, bound to an
\* object constructed by that call, and every call for a key leaves its
\* timestamp in the filter the key is bound to
StoreGrows ==
    /\ \A key \in DOMAIN FILTER_STATE' \ DOMAIN FILTER_STATE :
           /\ \E k \in 1..Len(filter_calls') :
                  /\ filter_calls'[k].vehicle_key = key
                  /\ filter_calls'[k].created
           /\ FILTER_STATE'[key].instance > constructed
           /\ FILTER_STATE'[key].instance <= constructed'
    /\ \A k \in 1..Len(filter_calls') :
           /\ filter_calls'[k].vehicle_key \in DOMAIN FILTER_STATE'
           /\ filter_calls'[k].created
                  <=> /\ filter_calls'[k].vehicle_key \notin DOMAIN FILTER_STATE
                      /\ \A earlier \in 1..(k - 1) :
                             filter_calls'[earlier].vehicle_key
                                 # filter_calls'[k].vehicle_key
           /\ FILTER_STATE'[filter_calls'[k].vehicle_key].last_timestamp
                  = <<filter_calls'[k].timestamp>>
    /\ \A k \in 1..Len(vehicles') : vehicles'[k].uid \in DOMAIN FILTER_STATE'

\* C9: filter state persists per key with no eviction: across every call of
\* generate_vehicle_data, get_tracking_snapshot and _filter_position a key of
\* the store stays, bound to the same filter object; a filter is made at the
\* first observation of its key and every later call for the key steps that
\* object; the store holds an entry for every uid of the vehicles returned;
\* only FILTER_STATE.clear() empties the store.
C9_Persistence ==
    [][IF last_call'.op = "clear"
       THEN FILTER_STATE' = EmptyDict
       ELSE StoreKept /\ StoreGrows]_vars

\* a second generation that stepped the filter objects the first one made
C9_Witness ==
    /\ last_call.op = "generate_vehicle_data"
    /\ last_call.number = 2
    /\ ~last_call.store_was_empty
    /\ \E k \in 1..Len(filter_calls) : ~filter_calls[k].created
    /\ \E key \in DOMAIN FILTER_STATE :
           /\ FILTER_STATE[key].state # <<>>
           /\ FILTER_STATE[key].covariance # InitialCovariance

\* C10: for every count >= 1, generate_vehicle_data(count) returns exactly
\* count vehicles whose uid values are pairwise distinct, so each entry of
\* the store is stepped at most once in a call.
C10_DistinctUids ==
    (Generation /\ last_call.count >= 1) =>
        /\ Len(vehicles) = last_call.count
        /\ \A j, k \in 1..Len(vehicles) :
               j # k => vehicles[j].uid # vehicles[k].uid
        /\ \A j, k \in 1..Len(filter_calls) :
               j # k => filter_calls[j].vehicle_key # filter_calls[k].vehicle_key

\* the vehicles of a run at the same time with the same routes and count,
\* started from an empty store
FreshRun == generate_vehicle_data(ROUTES, EmptyDict, 0, last_call.count, now).vehicles

\* C12: the raw position is a function of the routes, the vehicle index and
\* the time only: the raw_location of every vehicle of a generation equals
\* the raw_location the same index gets in a run with the same routes at the
\* same time from an empty store, whatever FILTER_STATE held and however
\* many calls ran before.
C12_RawDeterminism ==
    Generation =>
        \A fresh \in {FreshRun} :
            /\ Len(vehicles) = Len(fresh)
            /\ \A k \in 1..Len(vehicles) :
                   vehicles[k].raw_location = fresh[k].raw_location

\* a generation on a store an earlier call filled, in which the filter moved
\* a vehicle away from its raw position
C12_Witness ==
    /\ Generation
    /\ last_call.number = 2
    /\ ~last_call.store_was_empty
    /\ \E k \in 1..Len(vehicles) :
           /\ ~filter_calls[k].created
           /\ vehicles[k].location # vehicles[k].raw_location

\* the route of the k-th vehicle of a generation
RouteOf(k) == ROUTES[((k - 1) % Len(ROUTES)) + 1]

\* C16: routes are read-only after construction: no call of
\* generate_vehicle_data, get_tracking_snapshot or _filter_position changes
\* a field of a route of ROUTES, and after the filtered point was written
\* into a vehicle's trail and upcoming lists the point dicts of the route,
\* which the vehicle's path is, are the ones _build_routes made.
C16_RoutesReadOnly ==
    [][/\ ROUTES' = ROUTES
       /\ \A k \in 1..Len(vehicles') :
              vehicles'[k].path = RouteOf(k).point_dicts]_vars

\* a vehicle on the first vertex of its route, whose trail ended with the
\* point dict of the route for that vertex, got a filtered point that is
\* not the vertex as the end of its trail
C16_Witness ==
    /\ Generation
    /\ \E k \in 1..Len(vehicles) :
           /\ vehicles[k].segment_index = 0
           /\ vehicles[k].raw_location = RouteOf(k).point_dicts[1]
           /\ vehicles[k].location # vehicles[k].raw_location
           /\ vehicles[k].trail = <<vehicles[k].location>>
           /\ vehicles[k].upcoming[1] = vehicles[k].location

\* the exact product of two floats, as <<mantissa, exponent>>
Product(x, y) == <<x[1] * y[1], x[2] + y[2]>>

\* p <= q for exact products with positive mantissas
PositiveAtMost(p, q) ==
    LET top_p == BitLen[p[1]] + p[2]
        top_q == BitLen[q[1]] + q[2]
    IN IF top_p # top_q THEN top_p < top_q
       ELSE IF p[2] >= q[2] THEN p[1] * TwoTo[p[2] - q[2] + 1] <= q[1]
            ELSE p[1] <= q[1] * TwoTo[q[2] - p[2] + 1]

\* p <= q for exact products
AtMost(p, q) ==
    IF p[1] <= 0 /\ q[1] >= 0 THEN TRUE
    ELSE IF p[1] >= 0 /\ q[1] <= 0 THEN FALSE
    ELSE IF p[1] > 0 THEN PositiveAtMost(p, q)
         ELSE PositiveAtMost(<<0 - q[1], q[2]>>, <<0 - p[1], p[2]>>)

Symmetric(P) == \A i, j \in 1..4 : P[i][j] = P[j][i]

\* what positive semi-definiteness of a symmetric P says of its principal
\* minors of order 1 and 2: no diagonal entry is negative and
\* P[i][j] * P[j][i] <= P[i][i] * P[j][j]
MinorsNotNegative(P) ==
    /\ \A i \in 1..4 : P[i][i][1] >= 0
    /\ \A i, j \in 1..4 :
           i < j => AtMost(Product(P[i][j], P[j][i]), Product(P[i][i], P[j][j]))

\* C18: after every Kalman step, for any sequence of observations and
\* timestamps, the covariance matrix of each filter is symmetric and
\* positive semi-definite.
C18_CovarianceSymmetricPSD ==
    \A key \in DOMAIN FILTER_STATE :
        FILTER_STATE[key].covariance # <<>> =>
            /\ Symmetric(FILTER_STATE[key].covariance)
            /\ MinorsNotNegative(FILTER_STATE[key].covariance)

\* the timestamp the filter of the k-th call of _filter_position of a step
\* held when the call began: that of the call before it for the same key in
\* the step, or else the one in the store before the step
PreviousTimestamp(k) ==
    LET call == filter_calls'[k]
        earlier == {j \in 1..(k - 1) : filter_calls'[j].vehicle_key = call.vehicle_key}
    IN IF earlier # {}
       THEN filter_calls'[CHOOSE j \in earlier : \A i \in earlier : i <= j].timestamp
       ELSE FILTER_STATE[call.vehicle_key].last_timestamp[1]

\* C19: on every step after the first for a key, the elapsed time used for
\* prediction is dt = max(timestamp - last_timestamp, 1.0), last_timestamp
\* being the timestamp recorded by the previous step of that filter, for
\* every pair of timestamps, a previous timestamp of 0 and a new timestamp
\* earlier than the previous one included, and the filter then records the
\* new timestamp as last_timestamp.
C19_ElapsedTime ==
    [][\A k \in 1..Len(filter_calls') :
           ~filter_calls'[k].created =>
               /\ filter_calls'[k].dt
                      = Max(filter_calls'[k].timestamp - PreviousTimestamp(k), 1)
               /\ \/ \E later \in (k + 1)..Len(filter_calls') :
                         filter_calls'[later].vehicle_key = filter_calls'[k].vehicle_key
                  \/ FILTER_STATE'[filter_calls'[k].vehicle_key].last_timestamp
                         = <<filter_calls'[k].timestamp>>]_vars

(***************************************************************************)
(* Claims about the filter over successive polls, checked under SpecTrack. *)
(***************************************************************************)
\* 0.002 degrees in 1e-6 degrees
Tolerance == 2000

\* C17: with filter state persisting between generations, every vehicle's
\* filtered location stays within 0.002 degrees of its raw_location in
\* latitude and in longitude, in the second and every later generation,
\* for any elapsed time between generations, including generations in which
\* the vehicle wraps from the end of its route back to the start.
C17_FilteredNearRaw ==
    (Generation /\ last_call.number >= 2) =>
        \A k \in 1..Len(vehicles) :
            /\ Abs(vehicles[k].location[1] - vehicles[k].raw_location[1]) <= Tolerance
            /\ Abs(vehicles[k].location[2] - vehicles[k].raw_location[2]) <= Tolerance

(***************************************************************************)
(* Claims about _interpolate_position, checked under SpecInterp.           *)
(* Positions returned are in 1e-9 degrees, points in 1e-6 degrees.         *)
(***************************************************************************)
\* the point returned is the vertex point
IsVertex(result, point) ==
    /\ result[1] = point[1] * PosScale
    /\ result[2] = point[2] * PosScale

\* value is start + (end - start) * part / whole, the fraction of 1e-9
\* degrees dropped
IsBetween(value, start, end, part, whole) ==
    /\ (value - start * PosScale) * whole <= (end - start) * PosScale * part
    /\ (end - start) * PosScale * part < (value - start * PosScale + 1) * whole

\* C20: _interpolate_position(route, d) returns the first point when d <= 0
\* or the route has a single point; the last point when d >= total length;
\* vertex i itself when d equals cumulative[i]; and otherwise, with i the
\* lowest index whose cumulative value is >= d, the linear interpolation
\* between vertices i-1 and i at the ratio
\* (d - cumulative[i-1]) / (cumulative[i] - cumulative[i-1]), which lies
\* strictly between 0 and 1 (for the table [0, 5, 12, 20] and d = 10:
\* strictly between vertices 1 and 2 at ratio 5/7); for every non-decreasing
\* table, zero-length segments included, nothing is divided by zero and the
\* segment index returned is a valid index of points.
C20_Interpolation ==
    interpolated.ran =>
        LET cumulative == ROUTES[1].cumulative_km
            points == ROUTES[1].points
            n == Len(points)
            d == interpolated.distance_km
            result == interpolated.result
            above == {i \in 1..n : cumulative[i] >= d}
            lowest == CHOOSE i \in above : \A j \in above : i <= j
        IN /\ (d <= 0 \/ n = 1) => IsVertex(result, points[1])
           /\ d >= cumulative[n] => IsVertex(result, points[n])
           /\ \A i \in 1..n : d = cumulative[i] => IsVertex(result, points[i])
           /\ (d > 0 /\ n > 1 /\ d < cumulative[n] /\ \A i \in 1..n : d # cumulative[i]) =>
                  /\ lowest > 1
                  /\ cumulative[lowest] - cumulative[lowest - 1] > 0
                  /\ 0 < d - cumulative[lowest - 1]
                  /\ d - cumulative[lowest - 1]
                         < cumulative[lowest] - cumulative[lowest - 1]
                  /\ \A c \in 1..2 :
                         IsBetween(result[c], points[lowest - 1][c], points[lowest][c],
                                   d - cumulative[lowest - 1],
                                   cumulative[lowest] - cumulative[lowest - 1])
                  /\ result[3] = lowest - 2
           /\ (cumulative = <<0, 5, 12, 20>> /\ d = 10) =>
                  \A c \in 1..2 :
                      /\ 7 * (result[c] - points[2][c] * PosScale)
                             = 5 * (points[3][c] - points[2][c]) * PosScale
                      /\ points[2][c] * PosScale < result[c]
                      /\ result[c] < points[3][c] * PosScale
           /\ result[3] \in 0..(n - 1)

\* the call of the specification's example: the table [0, 5, 12, 20] and
\* d = 10, the result off both vertices
C20_Witness ==
    /\ interpolated.ran
    /\ ROUTES[1].cumulative_km = <<0, 5, 12, 20>>
    /\ interpolated.distance_km = 10
    /\ interpolated.result[3] = 1
    /\ ~IsVertex(interpolated.result, ROUTES[1].points[2])
    /\ ~IsVertex(interpolated.result, ROUTES[1].points[3])

\* the vertex i of the route, in 1e-9 degrees
Vertex(i) == <<ROUTES[1].points[i][1] * PosScale, ROUTES[1].points[i][2] * PosScale>>

\* the route has at least two points and no two consecutive ones are equal
DistinctVertices ==
    /\ Len(ROUTES[1].points) >= 2
    /\ \A i \in 1..(Len(ROUTES[1].points) - 1) :
           ROUTES[1].points[i] # ROUTES[1].points[i + 1]

\* C21: the simulator never asks for the bearing from a point to itself:
\* for every route with at least two points whose consecutive vertices are
\* distinct and every target distance, one that lands on a vertex included,
\* the heading computed from what _interpolate_position returned is the
\* bearing from the current point toward a different next vertex, or, at
\* the final vertex, from a different previous vertex toward the current
\* point.
C21_NoSelfBearing ==
    (interpolated.ran /\ DistinctVertices) =>
        LET n == Len(ROUTES[1].points)
            current == <<interpolated.result[1], interpolated.result[2]>>
            heading == interpolated.heading
        IN /\ heading.origin # heading.target
           /\ IF current = Vertex(n)
              THEN heading.origin = Vertex(n - 1) /\ heading.target = current
              ELSE /\ heading.origin = current
                   /\ \E i \in 2..n :
                          /\ heading.target = Vertex(i)
                          /\ ROUTES[1].cumulative_km[i] > interpolated.distance_km

(***************************************************************************)
(* Claims about the status and the speed, checked under SpecStatus.        *)
(* progress < 0.05 is progress < 50000 millionths, speed < 0.6 * base is   *)
(* 10 * speed < 6 * base.                                                  *)
(***************************************************************************)
\* C22: status is classified in strict priority order, giving exactly one
\* status for every (progress, speed, base speed): progress < 0.05 gives
\* departing whatever the speed; otherwise progress > 0.95 gives
\* approaching destination whatever the speed; otherwise
\* speed < 0.6 * base speed gives congested; otherwise en route; the
\* boundary values progress = 0.05, progress = 0.95 and
\* speed = 0.6 * base speed fall through to the later rule.
C22_StatusPriority ==
    classified.op # "none" =>
        LET departing == classified.progress < 50000
            approaching == classified.progress > 950000
            slow == 10 * classified.speed < 6 * classified.base_speed
        IN /\ classified.status \in {"Departing Terminal", "Approaching Destination",
                                     "Congested", "En Route"}
           /\ classified.status = "Departing Terminal" <=> departing
           /\ classified.status = "Approaching Destination"
                  <=> (~departing /\ approaching)
           /\ classified.status = "Congested"
                  <=> (~departing /\ ~approaching /\ slow)
           /\ classified.status = "En Route"
                  <=> (~departing /\ ~approaching /\ ~slow)

\* a slow vehicle at progress 0.05 exactly, which is congested and not
\* departing
C22_Witness ==
    /\ classified.op = "_determine_status"
    /\ classified.progress = 50000
    /\ 10 * classified.speed < 6 * classified.base_speed
    /\ classified.status = "Congested"

\* C26: the simulated speed is within max(base - 6, 8) .. base + 6 km/h,
\* base being the average speed of the route; so on a route whose average
\* speed is at least 15 km/h no vehicle is Congested: its status is
\* Departing Terminal, Approaching Destination or En Route
C26_SpeedBounds ==
    classified.op = "generate_vehicle_data" =>
        /\ classified.speed >= Max(classified.base_speed - 6000, 8000)
        /\ classified.speed <= classified.base_speed + 6000
        /\ classified.base_speed >= 15000 =>
               classified.status \in {"Departing Terminal",
                                      "Approaching Destination", "En Route"}

\* a vehicle of a route of 15 km/h at its lowest speed, 9 km/h, half way
\* along the route: it is En Route
C26_Witness ==
    /\ classified.op = "generate_vehicle_data"
    /\ classified.base_speed = 15000
    /\ classified.speed = 9000
    /\ classified.progress > 50000
    /\ classified.progress < 950000
    /\ classified.status = "En Route"

(***************************************************************************)
(* Claims about the trail and the upcoming points, checked under SpecFleet.*)
(***************************************************************************)
\* the vertices of the route of the k-th vehicle with the 0-based indices
\* max(seg - 60, 0)..seg, seg being the vehicle's segment index
TrailVertices(k) ==
    LET point_dicts == RouteOf(k).point_dicts
        seg == vehicles[k].segment_index
        first == Max(seg - 60, 0)
    IN [i \in 1..(seg + 1 - first) |-> point_dicts[first + i]]

\* the vertices of the route of the k-th vehicle after the index seg
VerticesAfter(k) ==
    LET point_dicts == RouteOf(k).point_dicts
        seg == vehicles[k].segment_index
    IN [i \in 1..(Len(point_dicts) - (seg + 1)) |-> point_dicts[seg + 1 + i]]

\* the trail vertices, followed by the current point (the rounded raw point)
\* when it differs from the last of them
TrailBeforeWrite(k) ==
    LET vertices == TrailVertices(k)
        current == vehicles[k].raw_location
    IN IF vertices[Len(vertices)] # current THEN Append(vertices, current)
       ELSE vertices

\* C23: in the vehicles of a call, trail is the route vertices
\* max(seg - 60, 0)..seg (at most 61 of them), followed by the current point
\* when it differs from the last of them, the last entry replaced by the
\* filtered point; trail is not empty, has at most 62 entries and ends with
\* location; upcoming is the filtered point followed by the vertices after
\* seg, and is empty exactly when no vertex follows seg, so a non-empty
\* upcoming starts with location
C23_TrailAndUpcoming ==
    Generation =>
        \A k \in DOMAIN vehicles :
            LET vehicle == vehicles[k]
                before == TrailBeforeWrite(k)
                after == VerticesAfter(k)
            IN /\ Len(TrailVertices(k)) \in 1..61
               /\ vehicle.trail = [before EXCEPT ![Len(before)] = vehicle.location]
               /\ Len(vehicle.trail) \in 1..62
               /\ vehicle.trail[Len(vehicle.trail)] = vehicle.location
               /\ (vehicle.upcoming = <<>>) <=> (after = <<>>)
               /\ after # <<>> => vehicle.upcoming = <<vehicle.location>> \o after
               /\ vehicle.upcoming # <<>> => vehicle.upcoming[1] = vehicle.location

\* one call has made a vehicle past the 61st vertex of its route, whose
\* trail has 62 entries and does not start at the first vertex, and a
\* vehicle on the only vertex of its route, whose trail gets no further
\* entry and which has no vertex ahead
C23_Witness ==
    /\ Generation
    /\ \E k \in DOMAIN vehicles :
           /\ vehicles[k].segment_index > 60
           /\ Len(vehicles[k].trail) = 62
           /\ vehicles[k].trail[1] # RouteOf(k).point_dicts[1]
           /\ vehicles[k].upcoming # <<>>
    /\ \E k \in DOMAIN vehicles :
           /\ Len(vehicles[k].trail) = Len(TrailVertices(k))
           /\ vehicles[k].upcoming = <<>>

(***************************************************************************)
(* Claims about _build_routes, checked under SpecBuild.                    *)
(***************************************************************************)
Built == last_call.op = "_build_routes"

\* C13: for every route built by _build_routes, cumulative_km has the
\* length of points, starts at 0, never decreases, and ends at length_km.
C13_Cumulative ==
    Built =>
        \A r \in DOMAIN ROUTES :
            LET cumulative == ROUTES[r].cumulative_km
            IN /\ Len(cumulative) = Len(ROUTES[r].points)
               /\ cumulative[1] = 0
               /\ \A i \in 1..(Len(cumulative) - 1) :
                      cumulative[i] <= cumulative[i + 1]
               /\ cumulative[Len(cumulative)] = ROUTES[r].length_km

\* a route whose distances grow, one with a repeated point and one of a
\* single point have been built together
C13_Witness ==
    /\ Built
    /\ Len(ROUTES) = 3
    /\ \E r \in DOMAIN ROUTES :
           /\ Len(ROUTES[r].cumulative_km) = 4
           /\ ROUTES[r].cumulative_km[2] < ROUTES[r].cumulative_km[3]
    /\ \E r \in DOMAIN ROUTES :
           /\ Len(ROUTES[r].cumulative_km) = 5
           /\ ROUTES[r].cumulative_km[3] = ROUTES[r].cumulative_km[4]
           /\ ROUTES[r].length_km > 0
    /\ \E r \in DOMAIN ROUTES : ROUTES[r].cumulative_km = <<0>>

\* length_km / average_speed_kmh * 3600 <= seconds, length_km being in
\* millimetres
LoopAtMost(route, seconds) ==
    route.length_km * 36 <= seconds * route.average_speed_kmh * 10000

LoopAtLeast(route, seconds) ==
    route.length_km * 36 >= seconds * route.average_speed_kmh * 10000

\* C14 as the specification states it: average_speed_kmh >= 5 and
\* loop_seconds >= 900, where loop_seconds equals
\* length_km / average_speed_kmh * 3600 whenever that value is at least 900
\* and equals 900 otherwise.
C14_LoopSecondsExact ==
    Built =>
        \A r \in DOMAIN ROUTES :
            /\ ROUTES[r].average_speed_kmh >= 5
            /\ ROUTES[r].loop_seconds >= 900
            /\ IF LoopAtLeast(ROUTES[r], 900)
               THEN /\ LoopAtMost(ROUTES[r], ROUTES[r].loop_seconds)
                    /\ LoopAtLeast(ROUTES[r], ROUTES[r].loop_seconds)
               ELSE ROUTES[r].loop_seconds = 900

\* C14 (amended): average_speed_kmh >= 5 and loop_seconds >= 900, where
\* loop_seconds is the whole number of seconds in
\* length_km / average_speed_kmh * 3600, the fraction dropped, whenever that
\* value is at least 900, and 900 otherwise.
C14_LoopSeconds ==
    Built =>
        \A r \in DOMAIN ROUTES :
            /\ ROUTES[r].average_speed_kmh >= 5
            /\ ROUTES[r].loop_seconds >= 900
            /\ IF LoopAtLeast(ROUTES[r], 900)
               THEN /\ LoopAtLeast(ROUTES[r], ROUTES[r].loop_seconds)
                    /\ ~LoopAtLeast(ROUTES[r], ROUTES[r].loop_seconds + 1)
               ELSE ROUTES[r].loop_seconds = 900

\* a route raised to the speed floor that loops in more than 900 seconds
\* and a fraction, next to a route held at 900 seconds
C14_Witness ==
    /\ Built
    /\ \E r \in DOMAIN ROUTES :
           /\ ROUTES[r].average_speed_kmh = 5
           /\ ROUTES[r].loop_seconds > 900
           /\ ~LoopAtMost(ROUTES[r], ROUTES[r].loop_seconds)
    /\ \E r \in DOMAIN ROUTES :
           /\ ROUTES[r].loop_seconds = 900
           /\ ~LoopAtLeast(ROUTES[r], 900)
           /\ ROUTES[r].average_speed_kmh = 35

\* the definitions whose polyline decodes to at least one point
WithPoints ==
    SelectSeq(route_definitions,
              LAMBDA d : decode_polyline6(d.polyline).coordinates # <<>>)

\* C15: a definition whose geometry decodes to zero points is dropped
\* without raising and without affecting the others: the routes built are
\* the definitions with non-empty decoded geometry, in definition order,
\* and every route of ROUTES has at least one point.
C15_EmptyDropped ==
    Built =>
        /\ Len(ROUTES) = Len(WithPoints)
        /\ \A r \in DOMAIN ROUTES :
               /\ ROUTES[r].id = WithPoints[r].id
               /\ ROUTES[r].points = decode_polyline6(WithPoints[r].polyline).coordinates
               /\ Len(ROUTES[r].points) >= 1

\* a definition without points between two with points
C15_Witness ==
    /\ Built
    /\ Len(route_definitions) = 3
    /\ route_definitions[2].polyline = <<>>
    /\ Len(ROUTES) = 2
    /\ ROUTES[1].id = route_definitions[1].id
    /\ ROUTES[2].id = route_definitions[3].id

(***************************************************************************)
(* Claims about concurrent callers, checked under SpecConc.                *)
(***************************************************************************)
\* both calls have returned
ThreadsDone == \A t \in DOMAIN threads : threads[t].pc = "done"

\* the store the two calls started from
StoreBefore == IF last_call.store_was_empty THEN EmptyDict ELSE StoredOnce

\* the filter of ConcKey after the call of thread first and then the call
\* of thread second, one after the other
Sequential(first, second) ==
    LET one == _filter_position(StoreBefore, 0, ConcKey, threads[first].timestamp,
                                threads[first].lat, threads[first].lng)
        two == _filter_position(one.store, 1, ConcKey, threads[second].timestamp,
                                threads[second].lat, threads[second].lng)
    IN two.store[ConcKey]

SameFilter(a, b) ==
    /\ a.state = b.state
    /\ a.covariance = b.covariance
    /\ a.last_timestamp = b.last_timestamp

\* C11: when two callers run _filter_position concurrently for the same key
\* (new or already present), in every interleaving the store ends with
\* exactly one filter for that key, the one both callers stepped, and its
\* state, covariance and last_timestamp are those of the two steps run one
\* after the other, in one order or the other.
C11_NoLostUpdate ==
    ThreadsDone =>
        /\ ConcKey \in DOMAIN FILTER_STATE
        /\ \A t \in DOMAIN threads :
               threads[t].kalman = FILTER_STATE[ConcKey].instance
        /\ \/ SameFilter(FILTER_STATE[ConcKey], Sequential(1, 2))
           \/ SameFilter(FILTER_STATE[ConcKey], Sequential(2, 1))

====
